---- MODULE Spec2Model ----
(***************************************************************************)
(* Model of the Renogy Bluetooth device session (renogy/device.py) and its *)
(* section decoders.  One poll = one session instance running execute().   *)
(* execute() is an asyncio coroutine: it yields only at its await points   *)
(* (establish_connection, start_notify, write_gatt_char, asyncio.sleep,    *)
(* disconnect).  notification_callback has no await and so runs atomically *)
(* while execute() is suspended at one of those points.                    *)
(***************************************************************************)
EXTENDS Integers, Sequences, FiniteSets, TLC

\* ------------------------------------------------------------------ bounds
MaxBody == 1          \* distinct payload contents a frame may carry
MaxLate == 1          \* requests whose answer may come after their cycle ended

\* ------------------------------------------------------- program constants
MaxSend == 2          \* while countsent < 2
MaxWait == 25         \* while countwait < 25
FUNCTION_READ == 3    \* self.function = 3
DEVICE_ID == 255      \* self.device_id = 255
SHUNT_OPERATION == 87 \* ShuntDevice.READ_OPERATION
SHUNT_MIN_LEN == 110  \* len(bs) < 110
DUMMY_LEN == 5        \* len(b"ab232")
OTHER_OPERATION == 6  \* FUNCTION = {3: "READ", 6: "WRITE"}
SLEEP_MS == 200       \* asyncio.sleep(.2), in milliseconds

DeviceTypes == {"Inverter", "DcDcCharger", "SmartShunt300", "TestDevice"}
Bodies == 1..MaxBody
NoReq == 0 - 1
None == "None"
TEST == "TEST"

\* ----------------------------------------------------- per-family set-up
InverterSections ==
    << [register |-> 4311, words |-> 8], [register |-> 4109, words |-> 1],
       [register |-> 4000, words |-> 10], [register |-> 4408, words |-> 6] >>

DCChargerSections ==
    << [register |-> 12, words |-> 8], [register |-> 26, words |-> 1],
       [register |-> 288, words |-> 3], [register |-> 57348, words |-> 1],
       [register |-> 256, words |-> 30] >>

ShuntSections == << [register |-> 256, words |-> 110] >>

TestSections == << [register |-> 256, words |-> 110] >>

\* self.sections, 1-based here: Sections(d)[i + 1] is sections[i]
Sections(d) ==
    CASE d = "Inverter" -> InverterSections
      [] d = "DcDcCharger" -> DCChargerSections
      [] d = "SmartShunt300" -> ShuntSections
      [] d = "RenogyDevice" -> << >>
      [] OTHER -> TestSections

NumSections(d) == Len(Sections(d))

\* a faulty set-up in which the test family has a real write characteristic
\* instead of the sentinel (C18 must tell it apart)
WriteUuidWithoutSentinel(d) ==
    CASE d \in {"Inverter", "DcDcCharger", "TestDevice"}
            -> "0000ffd1-0000-1000-8000-00805f9b34fb"
      [] OTHER -> None

WRITE_SERVICE_UUID(d) ==
    CASE d \in {"Inverter", "DcDcCharger"} -> "0000ffd1-0000-1000-8000-00805f9b34fb"
      [] d = "TestDevice" -> TEST
      [] OTHER -> None

NOTIFY_SERVICE_UUID(d) ==
    CASE d \in {"Inverter", "DcDcCharger"} -> "0000fff1-0000-1000-8000-00805f9b34fb"
      [] d = "SmartShunt300" -> "0000c411-0000-1000-8000-00805f9b34fb"
      [] d = "RenogyDevice" -> None
      [] OTHER -> TEST

READ_OPERATION(d) == IF d = "SmartShunt300" THEN SHUNT_OPERATION ELSE FUNCTION_READ

\* length of the Modbus answer to a read of w words:
\* address, function, byte count, 2*w data bytes, 2 CRC bytes
ResponseLen(w) == 5 + 2 * w

\* --------------------------------------------------------------- frames
(* A notification payload.  op is byte 1, len the number of bytes, body the *)
(* content of the data bytes, crcOk whether the two trailing bytes are the  *)
(* CRC-16/Modbus of the bytes before them.  re is not on the wire: it is    *)
(* the section whose request the device is answering (NoReq: none).         *)
Frame(op, len, body, crcOk, re) ==
    [op |-> op, len |-> len, body |-> body, crcOk |-> crcOk, re |-> re]

\* the answer of the device to the request written for sections[s]: the
\* registers of different sections hold different values (body + s)
AnswerFrame(d, s, body, crcOk) ==
    Frame(FUNCTION_READ, ResponseLen(Sections(d)[s + 1].words), body + s, crcOk, s)

UnsolicitedLens == {20, SHUNT_MIN_LEN}

\* frames a device sends without being asked: the stream of the shunt, short
\* or long, with a right or a wrong checksum, and a frame of another operation
UnsolicitedFrames ==
    { Frame(SHUNT_OPERATION, len, body, crcOk, NoReq) :
        len \in UnsolicitedLens, body \in Bodies, crcOk \in BOOLEAN }
    \cup { Frame(OTHER_OPERATION, 20, body, TRUE, NoReq) : body \in Bodies }

\* b"ab232" handed to the decoder in simulation mode
DummyFrame == Frame(98, DUMMY_LEN, 1, FALSE, NoReq)

\* ------------------------------------------------------------ measurements
\* RenogyDeviceData: entity index (the suffix of device_unique_id), name,
\* device_type, is_main, state and attributes (a set of <<key, value>> pairs)
Entity(id, name, kind, main, state, attrs) ==
    [id |-> id, name |-> name, kind |-> kind, is_main |-> main,
     state |-> state, attributes |-> attrs]

\* members of RenogyDeviceType
RenogyDeviceType ==
    { "TEMPERATURE_SENSOR", "DOOR_SENSOR", "VOLTAGE_SENSOR", "CURRENT_SENSOR",
      "AMP_HOURS_SENSOR", "POWER_SENSOR", "ENERGY_STORAGE", "PERCENTAGE",
      "STRING_DATA", "INT_DATA" }

\* values an entity state or attribute can hold
Num(n, den) == <<"num", n, den>>
Str(s) == <<"str", s>>
NoneValue == <<"None">>
Unknown == Str("Unknown")

\* ------------------------------------------------------------ codec (utils)
\* the byte of a frame at an offset: address, operation, byte count, then
\* 16-bit registers that each hold the frame's body value
ByteAt(frame, off) ==
    CASE off = 0 -> DEVICE_ID
      [] off = 1 -> frame.op
      [] off = 2 -> frame.len - 5
      [] off > 2 /\ off % 2 = 1 -> 0
      [] OTHER -> frame.body

RECURSIVE BigEndian(_, _, _)
BigEndian(frame, off, length) ==
    IF length = 0 THEN 0
    ELSE BigEndian(frame, off, length - 1) * 256 + ByteAt(frame, off + length - 1)

RECURSIVE Pow2(_)
Pow2(n) == IF n = 0 THEN 1 ELSE 2 * Pow2(n - 1)

\* bytes_to_int fails when offset + length reaches past the buffer
InRange(frame, off, length) == off + length <= frame.len

\* bytes_to_int(bs, offset, length, scale = 1/den, signed)
BytesToInt(frame, off, length, den, signed) ==
    LET raw == BigEndian(frame, off, length)
    IN  Num(IF signed /\ raw >= Pow2(8 * length - 1) THEN raw - Pow2(8 * length) ELSE raw,
            den)

\* volts * amps
Product(a, b) == Num(a[2] * b[2], a[3] * b[3])

\* (bs[3:19]).decode("utf-8") stripped: the text of the bytes the slice holds
Text(frame) ==
    LET last == IF frame.len < 19 THEN frame.len ELSE 19
    IN  <<"text", frame.body, IF last > 3 THEN last - 3 ELSE 0>>

\* ------------------------------------------------------------ decoders
Field(id, name, kind, offset, length, den, signed, main) ==
    [id |-> id, name |-> name, kind |-> kind, offset |-> offset, length |-> length,
     den |-> den, signed |-> signed, main |-> main]

\* a decoder's outcome: raised (an exception left parse_section), valid,
\* entities, and the decoder state (first_parse, model, battery_type) it leaves
Outcome(raised, valid, entities, st) ==
    [raised |-> raised, valid |-> valid, entities |-> entities, st |-> st]

Invalid(st) == Outcome(FALSE, FALSE, << >>, st)

Raises(st) == Outcome(TRUE, FALSE, << >>, st)

Valid(entities, st) == Outcome(FALSE, TRUE, entities, st)

\* every field of the list can be read from the frame
AllInRange(fields, frame) ==
    \A i \in 1..Len(fields) : InRange(frame, fields[i].offset, fields[i].length)

\* the RenogyDeviceData list a parse_* method builds from bytes_to_int fields
FieldEntities(fields, frame, mainAttrs, st) ==
    IF AllInRange(fields, frame)
    THEN Valid([ i \in 1..Len(fields) |->
                   Entity(fields[i].id, fields[i].name, fields[i].kind, fields[i].main,
                          BytesToInt(frame, fields[i].offset, fields[i].length,
                                     fields[i].den, fields[i].signed),
                          IF fields[i].main THEN mainAttrs ELSE {}) ], st)
    ELSE Raises(st)

InitialDecoderState ==
    [first_parse |-> TRUE, model |-> Unknown, battery_type |-> Unknown]

InverterDeviceIdFields ==
    << Field(2, "Device ID", "INT_DATA", 3, 2, 1, FALSE, FALSE) >>

InverterStatsFields ==
    << Field(3, "Input Voltage", "VOLTAGE_SENSOR", 3, 2, 10, FALSE, FALSE),
       Field(4, "Input Current", "CURRENT_SENSOR", 5, 2, 100, FALSE, FALSE),
       Field(5, "Output Voltage", "VOLTAGE_SENSOR", 7, 2, 10, FALSE, FALSE),
       Field(6, "Output Current", "CURRENT_SENSOR", 9, 2, 100, FALSE, TRUE),
       Field(7, "Output Frequency", "INT_DATA", 11, 2, 100, FALSE, FALSE),
       Field(8, "Battery Voltage", "VOLTAGE_SENSOR", 13, 2, 10, FALSE, FALSE),
       Field(9, "Inverter Temperature", "TEMPERATURE_SENSOR", 15, 2, 10, FALSE, FALSE),
       Field(10, "Input Frequency", "INT_DATA", 21, 2, 100, FALSE, FALSE) >>

InverterLoadFields ==
    << Field(18, "Load Current", "CURRENT_SENSOR", 3, 2, 10, FALSE, FALSE),
       Field(19, "Load Active Power", "POWER_SENSOR", 5, 2, 1, FALSE, FALSE),
       Field(20, "Load Apparent Power", "POWER_SENSOR", 7, 2, 1, FALSE, FALSE),
       Field(22, "Load Percentage", "PERCENTAGE", 13, 2, 1, FALSE, FALSE) >>

DCChargerAddressFields ==
    << Field(2, "Device ID", "INT_DATA", 4, 1, 1, FALSE, FALSE) >>

DCChargerChargingFields ==
    << Field(3, "Battery Percent", "PERCENTAGE", 3, 2, 1, FALSE, FALSE),
       Field(4, "Battery Voltage", "VOLTAGE_SENSOR", 5, 2, 10, FALSE, FALSE),
       Field(5, "Combined Charge Current", "CURRENT_SENSOR", 7, 2, 100, FALSE, TRUE),
       Field(6, "Controller Temperature", "TEMPERATURE_SENSOR", 9, 1, 1, FALSE, FALSE),
       Field(7, "Battery Temperature", "TEMPERATURE_SENSOR", 10, 1, 1, FALSE, FALSE),
       Field(8, "Alternator Voltage", "VOLTAGE_SENSOR", 11, 2, 10, FALSE, FALSE),
       Field(9, "Alternator Current", "CURRENT_SENSOR", 13, 2, 100, FALSE, FALSE),
       Field(10, "Alternator Power", "POWER_SENSOR", 15, 2, 1, FALSE, FALSE),
       Field(11, "Solar Voltage", "VOLTAGE_SENSOR", 17, 2, 10, FALSE, FALSE),
       Field(12, "Solar Current", "CURRENT_SENSOR", 19, 2, 100, FALSE, FALSE),
       Field(13, "Solar Power", "POWER_SENSOR", 21, 2, 1, FALSE, FALSE),
       Field(14, "Batt Min Voltage Today", "VOLTAGE_SENSOR", 25, 2, 10, FALSE, FALSE),
       Field(15, "Batt Max Voltage Today", "VOLTAGE_SENSOR", 27, 2, 10, FALSE, FALSE),
       Field(16, "Batt Max Current Today", "CURRENT_SENSOR", 29, 2, 100, FALSE, FALSE),
       Field(17, "Batt Charging Power Today", "POWER_SENSOR", 33, 2, 1, FALSE, FALSE),
       Field(18, "Charging Amp Hours Today", "AMP_HOURS_SENSOR", 37, 2, 1, FALSE, FALSE),
       Field(19, "Power Generation Today", "ENERGY_STORAGE", 41, 2, 1, FALSE, FALSE),
       Field(20, "Total Working Days", "INT_DATA", 45, 2, 1, FALSE, FALSE),
       Field(21, "Count Battery Overdischarged", "INT_DATA", 47, 2, 1, FALSE, FALSE),
       Field(22, "Count Battery Fully Charged", "INT_DATA", 49, 2, 1, FALSE, FALSE),
       Field(23, "Total Battery AH Accumulated", "AMP_HOURS_SENSOR", 51, 4, 1, FALSE, FALSE),
       Field(24, "Power Generation Total", "ENERGY_STORAGE", 59, 4, 1, FALSE, FALSE) >>

ParseInverterModel(frame, st) == Valid(<< >>, [st EXCEPT !.model = Text(frame)])

InverterParseSection(frame, idx, st) ==
    CASE idx = 0 -> ParseInverterModel(frame, st)
      [] idx = 1 -> FieldEntities(InverterDeviceIdFields, frame, {}, st)
      [] idx = 2 -> FieldEntities(InverterStatsFields, frame, {<<"model", st.model>>}, st)
      [] idx = 3 -> FieldEntities(InverterLoadFields, frame, {}, st)
      [] OTHER -> Invalid(st)

BATTERY_TYPE == <<"open", "sealed", "gel", "lithium", "custom">>

\* BATTERY_TYPE.get(v)
BatteryTypeGet(v) == IF v \in 1..Len(BATTERY_TYPE) THEN Str(BATTERY_TYPE[v]) ELSE NoneValue

DC_CHARGING_STATE ==
    [c \in {0, 1, 2, 3, 4, 5, 6, 8} |->
        CASE c = 0 -> "deactivated" [] c = 1 -> "activated" [] c = 2 -> "mppt"
          [] c = 3 -> "equalizing" [] c = 4 -> "boost" [] c = 5 -> "floating"
          [] c = 6 -> "current limiting" [] OTHER -> "alternator direct"]

\* CHARGING_STATE.get(code)
ChargingStateGet(code) ==
    IF code \in DOMAIN DC_CHARGING_STATE THEN Str(DC_CHARGING_STATE[code]) ELSE NoneValue

ParseDeviceInfo(frame, st) == Valid(<< >>, [st EXCEPT !.model = Text(frame)])

ParseBatteryType(frame, st) ==
    IF InRange(frame, 3, 2)
    THEN Valid(<< >>, [st EXCEPT !.battery_type =
                          BatteryTypeGet(BytesToInt(frame, 3, 2, 1, FALSE)[2])])
    ELSE Raises(st)

ParseState(frame, st) ==
    IF InRange(frame, 2, 1)
    THEN Valid(<< Entity(25, "Charge State", "STRING_DATA", FALSE,
                         ChargingStateGet(BytesToInt(frame, 2, 1, 1, FALSE)[2]), {}) >>, st)
    ELSE Raises(st)

ParseChargingInfo(frame, st) ==
    FieldEntities(DCChargerChargingFields, frame,
                  {<<"model", st.model>>, <<"battery_type", st.battery_type>>}, st)

\* a faulty variant of the dispatch of the DC-DC charger that decodes with
\* the last section's decoder once the index is past the last section (C31
\* must tell it apart)
DCChargerParseSectionPastLast(frame, idx, st) ==
    CASE idx = 0 -> ParseDeviceInfo(frame, st)
      [] idx = 1 -> FieldEntities(DCChargerAddressFields, frame, {}, st)
      [] idx = 2 -> ParseState(frame, st)
      [] idx = 3 -> ParseBatteryType(frame, st)
      [] OTHER -> ParseChargingInfo(frame, st)

DCChargerParseSection(frame, idx, st) ==
    CASE idx = 0 -> ParseDeviceInfo(frame, st)
      [] idx = 1 -> FieldEntities(DCChargerAddressFields, frame, {}, st)
      [] idx = 2 -> ParseState(frame, st)
      [] idx = 3 -> ParseBatteryType(frame, st)
      [] idx = 4 -> ParseChargingInfo(frame, st)
      [] OTHER -> Invalid(st)

\* a faulty variant of the shunt decoder that accepts every long frame, not
\* only the first (C30 must tell it apart)
ShuntParseSectionEveryFrame(frame, idx, st) ==
    IF idx # 0 \/ frame.len < SHUNT_MIN_LEN
    THEN Invalid(st)
    ELSE LET volts == BytesToInt(frame, 25, 3, 1000, FALSE)
             amps == BytesToInt(frame, 21, 3, 1000, TRUE)
         IN  Valid(<< Entity(1, "Main Battery Percent", "PERCENTAGE", TRUE,
                             BytesToInt(frame, 34, 2, 10, FALSE), {}),
                      Entity(2, "Main Battery Voltage", "VOLTAGE_SENSOR", FALSE, volts, {}),
                      Entity(3, "Starter Battery Voltage", "VOLTAGE_SENSOR", FALSE,
                             BytesToInt(frame, 30, 2, 1000, FALSE), {}),
                      Entity(4, "Charge Amps", "CURRENT_SENSOR", FALSE, amps, {}),
                      Entity(5, "Charge Watts", "POWER_SENSOR", FALSE,
                             Product(volts, amps), {}),
                      Entity(6, "Main Battery Temperature", "TEMPERATURE_SENSOR", FALSE,
                             BytesToInt(frame, 66, 2, 10, FALSE), {}) >>,
                   st)

ShuntParseSection(frame, idx, st) ==
    IF idx # 0 \/ ~st.first_parse \/ frame.len < SHUNT_MIN_LEN
    THEN Invalid(st)
    ELSE LET volts == BytesToInt(frame, 25, 3, 1000, FALSE)
             amps == BytesToInt(frame, 21, 3, 1000, TRUE)
         IN  Valid(<< Entity(1, "Main Battery Percent", "PERCENTAGE", TRUE,
                             BytesToInt(frame, 34, 2, 10, FALSE), {}),
                      Entity(2, "Main Battery Voltage", "VOLTAGE_SENSOR", FALSE, volts, {}),
                      Entity(3, "Starter Battery Voltage", "VOLTAGE_SENSOR", FALSE,
                             BytesToInt(frame, 30, 2, 1000, FALSE), {}),
                      Entity(4, "Charge Amps", "CURRENT_SENSOR", FALSE, amps, {}),
                      Entity(5, "Charge Watts", "POWER_SENSOR", FALSE,
                             Product(volts, amps), {}),
                      Entity(6, "Main Battery Temperature", "TEMPERATURE_SENSOR", FALSE,
                             BytesToInt(frame, 66, 2, 10, FALSE), {}) >>,
                   [st EXCEPT !.first_parse = FALSE])

\* a faulty variant of the test decoder that never closes its latch (C12
\* must tell it apart)
TestParseSectionNoLatch(frame, idx, st) ==
    IF idx # 0 \/ ~st.first_parse
    THEN Invalid(st)
    ELSE Valid(<< Entity(1, "Main Battery Percent", "PERCENTAGE", TRUE, Num(852, 10),
                         {<<"model", Str("SmartShunt300")>>}),
                  Entity(2, "Main Battery Voltage", "VOLTAGE_SENSOR", FALSE,
                         Num(136, 10), {}),
                  Entity(3, "Starter Battery Voltage", "VOLTAGE_SENSOR", FALSE,
                         Num(126, 10), {}),
                  Entity(4, "Charge Amps", "CURRENT_SENSOR", FALSE, Num(315, 100), {}),
                  Entity(5, "Charge Watts", "POWER_SENSOR", FALSE,
                         Product(Num(136, 10), Num(315, 100)), {}),
                  Entity(6, "Main Battery Temperature", "TEMPERATURE_SENSOR", FALSE,
                         Num(121, 10), {}),
                  Entity(7, "Main Battery Voltage (Test)", "VOLTAGE_SENSOR", FALSE,
                         Num(1245, 100), {<<"test_attribute", Str("test_value")>>}) >>,
               st)

TestParseSection(frame, idx, st) ==
    IF idx # 0 \/ ~st.first_parse
    THEN Invalid(st)
    ELSE Valid(<< Entity(1, "Main Battery Percent", "PERCENTAGE", TRUE, Num(852, 10),
                         {<<"model", Str("SmartShunt300")>>}),
                  Entity(2, "Main Battery Voltage", "VOLTAGE_SENSOR", FALSE,
                         Num(136, 10), {}),
                  Entity(3, "Starter Battery Voltage", "VOLTAGE_SENSOR", FALSE,
                         Num(126, 10), {}),
                  Entity(4, "Charge Amps", "CURRENT_SENSOR", FALSE, Num(315, 100), {}),
                  Entity(5, "Charge Watts", "POWER_SENSOR", FALSE,
                         Product(Num(136, 10), Num(315, 100)), {}),
                  Entity(6, "Main Battery Temperature", "TEMPERATURE_SENSOR", FALSE,
                         Num(121, 10), {}),
                  Entity(7, "Main Battery Voltage (Test)", "VOLTAGE_SENSOR", FALSE,
                         Num(1245, 100), {<<"test_attribute", Str("test_value")>>}) >>,
               [st EXCEPT !.first_parse = FALSE])

\* self.parse_section(bs, section_index) of the session's class
ParseSection(d, frame, idx, st) ==
    CASE d = "Inverter" -> InverterParseSection(frame, idx, st)
      [] d = "DcDcCharger" -> DCChargerParseSection(frame, idx, st)
      [] d = "SmartShunt300" -> ShuntParseSection(frame, idx, st)
      [] d = "RenogyDevice" -> Raises(st)
      [] OTHER -> TestParseSection(frame, idx, st)

\* ---------------------------------------------------------- read requests
\* exclusive or of two natural numbers, bit by bit
RECURSIVE Xor(_, _)
Xor(a, b) ==
    IF a = 0 THEN b
    ELSE IF b = 0 THEN a
    ELSE ((a + b) % 2) + 2 * Xor(a \div 2, b \div 2)

\* the polynomial of CRC-16/Modbus, reflected (0xA001), and its initial value
CRC_POLY == 40961
CRC_INIT == 65535

\* the checksum register shifted right by one bit
CrcStep(crc) == IF crc % 2 = 1 THEN Xor(crc \div 2, CRC_POLY) ELSE crc \div 2

\* the checksum register shifted n times (each intermediate value is bound
\* before the next shift is taken)
RECURSIVE CrcShift(_, _)
CrcShift(crc, n) ==
    IF n = 0 THEN crc
    ELSE CHOOSE r \in { CrcShift(next, n - 1) : next \in {CrcStep(crc)} } : TRUE

\* the checksum register after the first n bytes of data
RECURSIVE CrcRegister(_, _)
CrcRegister(data, n) ==
    IF n = 0 THEN CRC_INIT
    ELSE CHOOSE r \in { CrcShift(Xor(prev, data[n]), 8) :
                            prev \in {CrcRegister(data, n - 1)} } : TRUE

\* crc16_modbus(data): the checksum as (low byte, high byte)
Crc16Modbus(data) ==
    LET crc == CrcRegister(data, Len(data))
    IN  << crc % 256, crc \div 256 >>

\* int_to_bytes(value, byte_index): the high byte (index 0) or the low byte
\* (index 1) of a 16-bit value
IntToBytes(value, byte_index) ==
    IF byte_index = 0 THEN (value \div 256) % 256 ELSE value % 256

\* an argument of the request builder that is None
NoArg == 0 - 1

\* a faulty variant of create_generic_read_request that appends the checksum
\* high byte first (C23 must tell it apart)
CreateRequestCrcSwapped(device_id, function, regAddr, readWrd) ==
    IF regAddr # NoArg /\ readWrd # NoArg
    THEN LET data == << device_id, function, IntToBytes(regAddr, 0),
                        IntToBytes(regAddr, 1), IntToBytes(readWrd, 0),
                        IntToBytes(readWrd, 1) >>
             crc == Crc16Modbus(data)
         IN  data \o << crc[2], crc[1] >>
    ELSE << >>

\* create_generic_read_request (lines 122-138); the None it returns when an
\* argument is None is the empty sequence here
CreateGenericReadRequest(device_id, function, regAddr, readWrd) ==
    IF regAddr # NoArg /\ readWrd # NoArg
    THEN LET data == << device_id, function, IntToBytes(regAddr, 0),
                        IntToBytes(regAddr, 1), IntToBytes(readWrd, 0),
                        IntToBytes(readWrd, 1) >>
             crc == Crc16Modbus(data)
         IN  data \o << crc[1], crc[2] >>
    ELSE << >>

\* the frames read_section builds (lines 148-153), for every section of
\* every class of session
Requests ==
    [d \in DeviceTypes |->
        [i \in 1..NumSections(d) |->
            CreateGenericReadRequest(DEVICE_ID, FUNCTION_READ,
                                     Sections(d)[i].register, Sections(d)[i].words)]]

\* the frame read_section builds for sections[index]
Request(d, index) == Requests[d][index + 1]

\* ------------------------------------------------------------ session data
MAC == << "A", "A", ":", "B", "B", ":", "C", "C", ":", "D", "D", ":", "E", "E", ":",
         "F", "F" >>

\* str.lower() and str.replace(":", "_"), character by character
UpperCase ==
    << "A", "B", "C", "D", "E", "F", "G", "H", "I", "J", "K", "L", "M", "N", "O", "P",
       "Q", "R", "S", "T", "U", "V", "W", "X", "Y", "Z" >>
LowerCase ==
    << "a", "b", "c", "d", "e", "f", "g", "h", "i", "j", "k", "l", "m", "n", "o", "p",
       "q", "r", "s", "t", "u", "v", "w", "x", "y", "z" >>

LowerChar(c) ==
    IF \E i \in 1..Len(UpperCase) : UpperCase[i] = c
    THEN LowerCase[CHOOSE i \in 1..Len(UpperCase) : UpperCase[i] = c]
    ELSE c

Lower(text) == [i \in 1..Len(text) |-> LowerChar(text[i])]

Replace(text, old, new) == [i \in 1..Len(text) |-> IF text[i] = old THEN new ELSE text[i]]

\* the decimal digits of a natural number, as an f-string formats it
RECURSIVE Digits(_)
Digits(n) ==
    LET digit == << "0", "1", "2", "3", "4", "5", "6", "7", "8", "9" >>[(n % 10) + 1]
    IN  IF n < 10 THEN << digit >> ELSE Digits(n \div 10) \o << digit >>

\* a faulty variant of device_unique_id that keeps the case of the address,
\* as API.controller_name does (C22 must tell it apart)
DeviceUniqueIdKeepingCase(mac) ==
    << "r", "e", "n", "o", "g", "y", "_" >> \o Replace(mac, ":", "_")
        \o << "_", "i", "d" >>

\* the property device_unique_id (lines 91-94)
DeviceUniqueId(mac) ==
    << "r", "e", "n", "o", "g", "y", "_" >> \o Replace(Lower(mac), ":", "_")
        \o << "_", "i", "d" >>

\* device_unique_id of a measurement: self.device_unique_id + f"_{entity_id}"
UniqueId(mac, entity) == DeviceUniqueId(mac) \o << "_" >> \o Digits(entity.id)

\* what the host sees of a list: the name and the unique_id of each measurement
Published(list) ==
    { << list[i].name, UniqueId(MAC, list[i]) >> : i \in 1..Len(list) }

\* the advertised name (ble_device.name), here with surrounding whitespace
DEVICE_NAME == [text |-> "BT-TH-1A2B3C4D", padded |-> TRUE]

\* the configured display name
NAME == "Camper"

\* str.strip()
Strip(n) == [n EXCEPT !.padded = FALSE]

\* dev.attributes[k] = v
SetAttr(attrs, k, v) == {p \in attrs : p[1] # k} \cup {<<k, v>>}

\* a faulty variant of add_devices that tags every measurement, primary or
\* not (C17 must tell it apart)
AddDevicesToAll(list) ==
    [ i \in 1..Len(list) |->
        [list[i] EXCEPT !.attributes =
            SetAttr(SetAttr(SetAttr(@, "mac", Str(MAC)),
                            "device_name", Strip(DEVICE_NAME)),
                    "config_name", Str(NAME))] ]

\* RenogyDevice.add_devices applied to ret_dev_data
AddDevices(list) ==
    [ i \in 1..Len(list) |->
        IF list[i].is_main
        THEN [list[i] EXCEPT !.attributes =
                 SetAttr(SetAttr(SetAttr(@, "mac", Str(MAC)),
                                 "device_name", Strip(DEVICE_NAME)),
                         "config_name", Str(NAME))]
        ELSE list[i] ]

\* ------------------------------------------------------------------ state
VARIABLES
    devtype,        \* API.device_type: the class of the session
    body,           \* register content of the device during this poll
    pc,             \* where execute() is
    client,         \* self.client: None or the BleakClient
    section_index,  \* self.section_index
    countsent,      \* local of execute
    recieved,       \* local of execute
    countwait,      \* local of execute
    event,          \* self._notification_event.is_set()
    ret_dev_data,   \* self.ret_dev_data
    dec,            \* first_parse, model, battery_type of the session
    error,          \* the exception that reached the except clause, or None
    result,         \* the list execute returned, or NoneValue
    subscribed,     \* the transport delivers notifications to the callback
    inflight,       \* requests <<section, attempt>> the device may still answer
    late,           \* requests kept to be answered after their cycle ended
    writes,         \* history of write_gatt_char calls: how many there were for
                    \* sections[section_index], the section of the last one
                    \* and the frame it wrote
    calls,          \* history: number of connect, start_notify, disconnect calls
    cycles,         \* history: request/response cycles in progress
    acceptedHere,   \* history: valid decodes made with the current section_index
    retried,        \* history: some attempt ended without a valid notification
    spent,          \* history: the requests written and the polling waits
                    \* made by this execute, counted where the count is
                    \* switched on
    lastcb,         \* history: what the latest notification callback did
    trailing,       \* history: a notification was delivered after the
                    \* section index had passed the last section
    faults,         \* history: transport faults and cancellations so far
    api,            \* the API object that runs the polls: where get_devices is,
                    \* lastUpdateValid, the exception it raised, the number of
                    \* calls so far and how the previous call ended
    fed,            \* history of a decoder fed by hand: payloads and outcomes
    req,            \* a call of the request builder: its arguments and what
                    \* it returned
    peer,           \* the session of another controller while the event loop
                    \* runs this one, or NoPeer
    switches,       \* how often the event loop went from one session to the
                    \* other
    seen            \* history: name and unique_id of every measurement that
                    \* get_devices has returned so far

vars ==
    << api, fed, req, peer, switches, seen, devtype, body, pc, client, section_index, countsent, recieved, countwait,
       event, ret_dev_data, dec, error, result, subscribed, inflight, late, writes,
       calls, cycles, acceptedHere, retried, spent, lastcb, trailing, faults >>

\* what execute() and the callback never touch
aside == << req, peer, switches, seen >>

outer == << devtype, body, api, fed, aside >>

session == << section_index, countsent, recieved, countwait, event, ret_dev_data, dec >>

locals == << section_index, countsent, recieved, countwait >>

device == << subscribed, inflight, late >>

cbhist == << acceptedHere, lastcb, trailing >>

\* places where execute() is suspended in an await
AwaitPcs ==
    {"connecting", "subscribing", "writing", "sleeping", "disconnecting",
     "handler_disconnect"}

\* writes and waits are not counted
NoCount == [on |-> FALSE, writes |-> 0, waits |-> 0]

\* one more write or wait, when they are counted
Count(what) == IF spent.on THEN [spent EXCEPT ![what] = @ + 1] ELSE spent

\* no other session
NoPeer == [devtype |-> None]

\* no call of the request builder on its own, one session only, and nothing
\* returned yet
Alone ==
    /\ req = << >> /\ peer = NoPeer /\ switches = 0 /\ seen = {}
    /\ spent = NoCount

\* RenogyDevice.__init__ and the subclass __init__, before execute is called
Constructed ==
    /\ client = None
    /\ section_index = 0
    /\ countsent = 0
    /\ recieved = 0
    /\ countwait = 0
    /\ event = FALSE
    /\ ret_dev_data = << >>
    /\ dec = InitialDecoderState
    /\ error = None
    /\ result = NoneValue
    /\ subscribed = FALSE
    /\ inflight = {}
    /\ late = 0
    /\ writes = [here |-> 0, last |-> NoReq, frame |-> << >>]
    /\ calls = [connect |-> 0, notify |-> 0, disconnect |-> 0]
    /\ cycles = {}
    /\ acceptedHere = 0
    /\ retried = FALSE
    /\ lastcb = "none"
    /\ trailing = FALSE
    /\ faults = {}

\* get_devices of a new API object has constructed the session and is about
\* to call execute (api.py lines 56-76)
Executing(n, prev) ==
    [pc |-> "executing", lastUpdateValid |-> FALSE, error |-> None, polls |-> n,
     prev |-> prev]

\* one poll: the session of one call of get_devices
Init ==
    /\ devtype \in DeviceTypes
    /\ body \in Bodies
    /\ api = Executing(1, "ready")
    /\ fed = << >>
    /\ Alone
    /\ pc = "idle"
    /\ Constructed

\* ------------------------------------------------------ execute, line by line
\* an exception raised inside the try block reaches the except clause
Raise(e) == pc' = "handler" /\ error' = e

\* a faulty variant of lines 170-181 that connects without looking at the
\* notify characteristic (C33 must tell it apart)
ExecuteWithoutNotifyCheck ==
    /\ pc = "idle"
    /\ client' = None
    /\ IF WRITE_SERVICE_UUID(devtype) # TEST
       THEN /\ pc' = "connecting"
            /\ calls' = [calls EXCEPT !.connect = @ + 1]
            /\ UNCHANGED << result, ret_dev_data, event, dec, cbhist, error >>
       ELSE \E items \in {ParseSection(devtype, DummyFrame, section_index, dec)} :
                /\ dec' = items.st
                /\ IF items.raised
                   THEN /\ Raise("DecodeError")
                        /\ lastcb' = "decode_raised"
                        /\ UNCHANGED << ret_dev_data, event, acceptedHere >>
                   ELSE /\ pc' = "finalize"
                        /\ error' = error
                        /\ IF items.valid
                           THEN /\ ret_dev_data' = ret_dev_data \o items.entities
                                /\ event' = TRUE
                                /\ acceptedHere' = acceptedHere + 1
                                /\ lastcb' = "valid"
                           ELSE /\ lastcb' = "invalid"
                                /\ UNCHANGED << ret_dev_data, event, acceptedHere >>
                /\ UNCHANGED << calls, result, trailing >>
    /\ UNCHANGED << outer, locals, device, writes, cycles, retried, spent, faults >>

\* lines 170-181 and 219-226: up to the first await, or the simulated decode
Execute ==
    /\ pc = "idle"
    /\ client' = None
    /\ IF WRITE_SERVICE_UUID(devtype) # TEST
       THEN IF NOTIFY_SERVICE_UUID(devtype) = None
            THEN /\ pc' = "done"
                 /\ result' = << >>
                 /\ UNCHANGED << calls, ret_dev_data, event, dec, cbhist, error >>
            ELSE /\ pc' = "connecting"
                 /\ calls' = [calls EXCEPT !.connect = @ + 1]
                 /\ UNCHANGED << result, ret_dev_data, event, dec, cbhist, error >>
       ELSE \E items \in {ParseSection(devtype, DummyFrame, section_index, dec)} :
                /\ dec' = items.st
                /\ IF items.raised
                   THEN /\ Raise("DecodeError")
                        /\ lastcb' = "decode_raised"
                        /\ UNCHANGED << ret_dev_data, event, acceptedHere >>
                   ELSE /\ pc' = "finalize"
                        /\ error' = error
                        /\ IF items.valid
                           THEN /\ ret_dev_data' = ret_dev_data \o items.entities
                                /\ event' = TRUE
                                /\ acceptedHere' = acceptedHere + 1
                                /\ lastcb' = "valid"
                           ELSE /\ lastcb' = "invalid"
                                /\ UNCHANGED << ret_dev_data, event, acceptedHere >>
                /\ UNCHANGED << calls, result, trailing >>
    /\ UNCHANGED << outer, locals, device, writes, cycles, retried, spent, faults >>

\* a faulty variant of lines 179-192 that does not look at is_connected
\* (C10 must tell it apart)
EstablishConnectionUnchecked(is_connected) ==
    /\ pc = "connecting"
    /\ client' = "client"
    /\ pc' = "subscribing"
    /\ calls' = [calls EXCEPT !.notify = @ + 1]
    /\ faults' = IF is_connected THEN faults ELSE faults \cup {"not_connected"}
    /\ UNCHANGED << outer, session, error, result, device, writes, cycles,
                    cbhist, retried, spent >>

\* line 179 returns a client; lines 183-192 up to the await of start_notify
EstablishConnection(is_connected) ==
    /\ pc = "connecting"
    /\ client' = "client"
    /\ IF ~is_connected
       THEN /\ Raise("DeviceConnectionError")
            /\ faults' = faults \cup {"not_connected"}
            /\ calls' = calls
       ELSE /\ pc' = "subscribing"
            /\ calls' = [calls EXCEPT !.notify = @ + 1]
            /\ UNCHANGED << error, faults >>
    /\ UNCHANGED << outer, session, result, device, writes, cycles, cbhist,
                    retried, spent >>

\* line 179 raises: the link cannot be established
EstablishConnectionRaises ==
    /\ pc = "connecting"
    /\ Raise("BleakError")
    /\ faults' = faults \cup {"connect"}
    /\ UNCHANGED << outer, client, session, result, device, writes, calls,
                    cycles, cbhist, retried, spent >>

\* line 190 returns; lines 194-195
StartNotify ==
    /\ pc = "subscribing"
    /\ subscribed' = TRUE
    /\ countsent' = 0
    /\ recieved' = 0
    /\ pc' = "loop"
    /\ UNCHANGED << outer, client, section_index, countwait, event,
                    ret_dev_data, dec, error, result, inflight, late, writes, calls,
                    cycles, cbhist, retried, spent, faults >>

StartNotifyRaises ==
    /\ pc = "subscribing"
    /\ Raise("BleakError")
    /\ faults' = faults \cup {"start_notify"}
    /\ UNCHANGED << outer, client, session, result, device, writes, calls,
                    cycles, cbhist, retried, spent >>

\* a faulty variant of line 197 that never retries (C1 must tell it apart)
SendOnce == countsent < 1 /\ recieved = 0

\* a faulty variant of line 197 that makes a third attempt (C32 must tell it
\* apart)
SendThrice == countsent < MaxSend + 1 /\ recieved = 0

\* line 197: another attempt is made for the current section
SendAgain == countsent < MaxSend /\ recieved = 0

\* a faulty variant of line 202 that waits the 25 intervals out even when a
\* notification was accepted (C13 must tell it apart)
WaitPcIgnoresEvent(cw, ev) == IF cw < MaxWait THEN "sleeping" ELSE "attempt_end"

\* line 202: the wait goes on, or the attempt is over
WaitPc(cw, ev) == IF cw < MaxWait /\ ~ev THEN "sleeping" ELSE "attempt_end"

\* a faulty variant of lines 196-199 that also writes the next request while
\* the wait of the previous one is still going on (C7 must tell it apart)
ReadSectionPipelined ==
    /\ pc \in {"loop", "sleeping"}
    /\ section_index < NumSections(devtype)
    /\ SendAgain
    /\ writes.here < MaxSend
    /\ WRITE_SERVICE_UUID(devtype) # None
    /\ event' = FALSE
    /\ writes' = [here |-> writes.here + 1, last |-> section_index,
                  frame |-> Request(devtype, section_index)]
    /\ cycles' = cycles \cup {<<section_index, writes.here + 1>>}
    /\ spent' = Count("writes")
    /\ pc' = "writing"
    /\ UNCHANGED << outer, client, locals, ret_dev_data, dec, error, result,
                    device, calls, cbhist, retried, faults >>

\* lines 196-199 with a write characteristic: read_section up to its await
ReadSection ==
    /\ pc = "loop"
    /\ section_index < NumSections(devtype)
    /\ SendAgain
    /\ WRITE_SERVICE_UUID(devtype) # None
    /\ event' = FALSE
    /\ writes' = [here |-> writes.here + 1, last |-> section_index,
                  frame |-> Request(devtype, section_index)]
    /\ cycles' = cycles \cup {<<section_index, writes.here + 1>>}
    /\ spent' = Count("writes")
    /\ pc' = "writing"
    /\ UNCHANGED << outer, client, locals, ret_dev_data, dec, error, result,
                    device, calls, cbhist, retried, faults >>

\* line 154 returns: the device has the request; lines 201-202
WriteGattChar ==
    /\ pc = "writing"
    /\ inflight' = inflight \cup {<<section_index, countsent + 1>>}
    /\ countwait' = 0
    /\ pc' = WaitPc(0, event)
    /\ UNCHANGED << outer, client, section_index, countsent, recieved, event,
                    ret_dev_data, dec, error, result, subscribed, late, writes, calls,
                    cycles, cbhist, retried, spent, faults >>

WriteGattCharRaises ==
    /\ pc = "writing"
    /\ Raise("BleakError")
    /\ faults' = faults \cup {"write"}
    /\ UNCHANGED << outer, client, session, result, device, writes, calls,
                    cycles, cbhist, retried, spent >>

\* lines 196-198 and 201-202 without a write characteristic
WaitWithoutWrite ==
    /\ pc = "loop"
    /\ section_index < NumSections(devtype)
    /\ SendAgain
    /\ WRITE_SERVICE_UUID(devtype) = None
    /\ countwait' = 0
    /\ pc' = WaitPc(0, event)
    /\ UNCHANGED << outer, client, section_index, countsent, recieved, event,
                    ret_dev_data, dec, error, result, device, writes, calls, cycles,
                    cbhist, retried, spent, faults >>

\* line 203 returns; lines 204 and 202
Sleep ==
    /\ pc = "sleeping"
    /\ countwait' = countwait + 1
    /\ pc' = WaitPc(countwait + 1, event)
    /\ spent' = Count("waits")
    /\ UNCHANGED << outer, client, section_index, countsent, recieved, event,
                    ret_dev_data, dec, error, result, device, writes, calls, cycles,
                    cbhist, retried, faults >>

\* lines 206-209.  The cycle of the request written for this attempt ends
\* here; when the device has not answered it, it answers later (keep) or never
AttemptEnd(keep) ==
    /\ pc = "attempt_end"
    /\ keep => (<<section_index, countsent + 1>> \in inflight /\ late < MaxLate)
    /\ countsent' = countsent + 1
    /\ recieved' = IF event THEN 1 ELSE recieved
    /\ cycles' = cycles \ {<<section_index, countsent + 1>>}
    /\ inflight' = IF keep THEN inflight ELSE inflight \ {<<section_index, countsent + 1>>}
    /\ late' = IF keep THEN late + 1 ELSE late
    /\ retried' = (retried \/ ~event)
    /\ spent' = spent
    /\ pc' = "loop"
    /\ UNCHANGED << outer, client, section_index, countwait, event,
                    ret_dev_data, dec, error, result, subscribed, writes, calls,
                    cbhist, faults >>

\* a faulty variant of lines 211-214 that skips a section (C3 must tell it
\* apart)
AdvanceSkipping ==
    /\ pc = "loop"
    /\ section_index < NumSections(devtype)
    /\ ~SendAgain
    /\ recieved = 1
    /\ section_index' = section_index + 2
    /\ countsent' = 0
    /\ recieved' = 0
    /\ writes' = [writes EXCEPT !.here = 0]
    /\ acceptedHere' = 0
    /\ pc' = "loop"
    /\ UNCHANGED << outer, client, countwait, event, ret_dev_data, dec, error,
                    result, device, calls, cycles, lastcb, trailing, retried, spent,
                    faults >>

\* a faulty variant of lines 211-214 that leaves the attempt counter as it
\* is (C28 must tell it apart)
AdvanceKeepingCount ==
    /\ pc = "loop"
    /\ section_index < NumSections(devtype)
    /\ ~SendAgain
    /\ recieved = 1
    /\ section_index' = section_index + 1
    /\ countsent' = countsent
    /\ recieved' = 0
    /\ writes' = [writes EXCEPT !.here = 0]
    /\ acceptedHere' = 0
    /\ pc' = "loop"
    /\ UNCHANGED << outer, client, countwait, event, ret_dev_data, dec, error,
                    result, device, calls, cycles, lastcb, trailing, retried, spent,
                    faults >>

\* lines 211-214
Advance ==
    /\ pc = "loop"
    /\ section_index < NumSections(devtype)
    /\ ~SendAgain
    /\ recieved = 1
    /\ section_index' = section_index + 1
    /\ countsent' = 0
    /\ recieved' = 0
    /\ writes' = [writes EXCEPT !.here = 0]
    /\ acceptedHere' = 0
    /\ pc' = "loop"
    /\ UNCHANGED << outer, client, countwait, event, ret_dev_data, dec, error,
                    result, device, calls, cycles, lastcb, trailing, retried, spent,
                    faults >>

\* lines 215-216
RaiseCommunicationError ==
    /\ pc = "loop"
    /\ section_index < NumSections(devtype)
    /\ ~SendAgain
    /\ recieved # 1
    /\ Raise("DeviceCommunicationError")
    /\ UNCHANGED << outer, client, session, result, device, writes, calls,
                    cycles, cbhist, retried, spent, faults >>

\* lines 196 and 218: every section is done, up to the await of disconnect
Disconnect ==
    /\ pc = "loop"
    /\ ~(section_index < NumSections(devtype))
    /\ calls' = [calls EXCEPT !.disconnect = @ + 1]
    /\ pc' = "disconnecting"
    /\ UNCHANGED << outer, client, session, error, result, device, writes,
                    cycles, cbhist, retried, spent, faults >>

\* line 218 returns
DisconnectReturns ==
    /\ pc = "disconnecting"
    /\ subscribed' = FALSE
    /\ pc' = "finalize"
    /\ UNCHANGED << outer, client, session, error, result, inflight, late,
                    writes, calls, cycles, cbhist, retried, spent, faults >>

DisconnectRaises ==
    /\ pc = "disconnecting"
    /\ Raise("BleakError")
    /\ faults' = faults \cup {"disconnect"}
    /\ UNCHANGED << outer, client, session, result, device, writes, calls,
                    cycles, cbhist, retried, spent >>

\* lines 235-236
Finalize ==
    /\ pc = "finalize"
    /\ ret_dev_data' = AddDevices(ret_dev_data)
    /\ result' = AddDevices(ret_dev_data)
    /\ pc' = "done"
    /\ UNCHANGED << outer, client, locals, event, dec, error, device, writes,
                    calls, cycles, cbhist, retried, spent, faults >>

\* a faulty variant of lines 228-233 that returns the empty list without
\* disconnecting (C29 must tell it apart)
ExceptHandlerWithoutDisconnect ==
    /\ pc = "handler"
    /\ result' = << >>
    /\ pc' = "done"
    /\ calls' = calls
    /\ UNCHANGED << outer, client, session, error, device, writes, cycles,
                    cbhist, retried, spent, faults >>

\* lines 228-233 up to the await of disconnect, or to the return
ExceptHandler ==
    /\ pc = "handler"
    /\ IF client # None
       THEN /\ calls' = [calls EXCEPT !.disconnect = @ + 1]
            /\ pc' = "handler_disconnect"
            /\ result' = result
       ELSE /\ result' = << >>
            /\ pc' = "done"
            /\ calls' = calls
    /\ UNCHANGED << outer, client, session, error, device, writes, cycles,
                    cbhist, retried, spent, faults >>

\* a faulty variant of lines 232-233 that returns what was accumulated (C2
\* must tell it apart)
HandlerDisconnectReturnsPartial ==
    /\ pc = "handler_disconnect"
    /\ subscribed' = FALSE
    /\ result' = ret_dev_data
    /\ pc' = "done"
    /\ UNCHANGED << outer, client, session, error, inflight, late, writes,
                    calls, cycles, cbhist, retried, spent, faults >>

\* line 232 returns; line 233
HandlerDisconnectReturns ==
    /\ pc = "handler_disconnect"
    /\ subscribed' = FALSE
    /\ result' = << >>
    /\ pc' = "done"
    /\ UNCHANGED << outer, client, session, error, inflight, late, writes,
                    calls, cycles, cbhist, retried, spent, faults >>

\* line 232 raises inside the except clause: the exception leaves execute
HandlerDisconnectRaises ==
    /\ pc = "handler_disconnect"
    /\ faults' = faults \cup {"handler_disconnect"}
    /\ pc' = "raised"
    /\ UNCHANGED << outer, client, session, error, result, device, writes,
                    calls, cycles, cbhist, retried, spent >>

\* the task running the poll is cancelled while execute is suspended:
\* asyncio.CancelledError is a BaseException, which line 228 does not catch
Cancel ==
    /\ pc \in AwaitPcs
    /\ faults' = faults \cup {"cancel"}
    /\ pc' = "raised"
    /\ UNCHANGED << outer, client, session, error, result, device, writes,
                    calls, cycles, cbhist, retried, spent >>

\* --------------------------------------------------- notification_callback
\* a faulty variant of lines 109-114 that signals the response whatever the
\* decoder said (C4 must tell it apart)
NotificationCallbackSetsAlways(frame) ==
    IF ByteAt(frame, 1) = READ_OPERATION(devtype)
    THEN \E items \in {ParseSection(devtype, frame, section_index, dec)} :
             /\ dec' = items.st
             /\ event' = TRUE
             /\ IF items.raised
                THEN /\ lastcb' = "decode_raised"
                     /\ UNCHANGED << ret_dev_data, acceptedHere >>
                ELSE IF items.valid
                THEN /\ ret_dev_data' = ret_dev_data \o items.entities
                     /\ acceptedHere' = acceptedHere + 1
                     /\ lastcb' = "valid"
                ELSE /\ lastcb' = "invalid"
                     /\ UNCHANGED << ret_dev_data, acceptedHere >>
    ELSE /\ lastcb' = "ignored"
         /\ UNCHANGED << ret_dev_data, event, dec, acceptedHere >>

\* a faulty variant of line 109 that decodes a frame of any operation (C5
\* must tell it apart)
NotificationCallbackAnyOperation(frame) ==
    \E items \in {ParseSection(devtype, frame, section_index, dec)} :
        /\ dec' = items.st
        /\ IF items.raised
           THEN /\ lastcb' = "decode_raised"
                /\ UNCHANGED << ret_dev_data, event, acceptedHere >>
           ELSE IF items.valid
           THEN /\ ret_dev_data' = ret_dev_data \o items.entities
                /\ event' = TRUE
                /\ acceptedHere' = acceptedHere + 1
                /\ lastcb' = "valid"
           ELSE /\ lastcb' = "invalid"
                /\ UNCHANGED << ret_dev_data, event, acceptedHere >>

\* lines 100-120, run to completion for one frame
NotificationCallback(frame) ==
    IF ~InRange(frame, 1, 1)
    THEN \* bytes_to_int(data, 1, 1) fails: the callback ends in an exception
         /\ lastcb' = "raised"
         /\ UNCHANGED << ret_dev_data, event, dec, acceptedHere >>
    ELSE IF ByteAt(frame, 1) = READ_OPERATION(devtype)
    THEN \E items \in {ParseSection(devtype, frame, section_index, dec)} :
             /\ dec' = items.st
             /\ IF items.raised
                THEN /\ lastcb' = "decode_raised"
                     /\ UNCHANGED << ret_dev_data, event, acceptedHere >>
                ELSE IF items.valid
                THEN /\ ret_dev_data' = ret_dev_data \o items.entities
                     /\ event' = TRUE
                     /\ acceptedHere' = acceptedHere + 1
                     /\ lastcb' = "valid"
                ELSE /\ lastcb' = "invalid"
                     /\ UNCHANGED << ret_dev_data, event, acceptedHere >>
    ELSE /\ lastcb' = "ignored"
         /\ UNCHANGED << ret_dev_data, event, dec, acceptedHere >>

\* the transport delivers notifications while the session is subscribed and
\* execute is suspended
Delivering == subscribed /\ pc \in AwaitPcs

\* the device answers a request it has received
DeviceAnswers(r, crcOk) ==
    /\ Delivering
    /\ r \in inflight
    /\ inflight' = inflight \ {r}
    /\ NotificationCallback(AnswerFrame(devtype, r[1], body, crcOk))
    /\ trailing' = (trailing \/ ~(section_index < NumSections(devtype)))
    /\ UNCHANGED << outer, pc, client, locals, error, result, subscribed,
                    late, writes, calls, cycles, retried, spent, faults >>

\* the device sends a frame nobody asked for; the stream of operation 87 is
\* what a shunt sends
DeviceSends(frame) ==
    /\ Delivering
    /\ frame.body = body
    /\ frame.op = SHUNT_OPERATION => devtype = "SmartShunt300"
    /\ NotificationCallback(frame)
    /\ trailing' = (trailing \/ ~(section_index < NumSections(devtype)))
    /\ UNCHANGED << outer, pc, client, locals, error, result, device,
                    writes, calls, cycles, retried, spent, faults >>

Next ==
    \/ Execute
    \/ \E is_connected \in BOOLEAN : EstablishConnection(is_connected)
    \/ EstablishConnectionRaises
    \/ StartNotify
    \/ StartNotifyRaises
    \/ ReadSection
    \/ WriteGattChar
    \/ WriteGattCharRaises
    \/ WaitWithoutWrite
    \/ Sleep
    \/ \E keep \in BOOLEAN : AttemptEnd(keep)
    \/ Advance
    \/ RaiseCommunicationError
    \/ Disconnect
    \/ DisconnectReturns
    \/ DisconnectRaises
    \/ Finalize
    \/ ExceptHandler
    \/ HandlerDisconnectReturns
    \/ HandlerDisconnectRaises
    \/ Cancel
    \/ \E r \in inflight, crcOk \in BOOLEAN : DeviceAnswers(r, crcOk)
    \/ \E frame \in UnsolicitedFrames : DeviceSends(frame)

Spec == Init /\ [][Next]_vars

\* ------------------------------------------- a decoder fed payloads by hand
MaxFeed == 2          \* payloads fed to one decoder

\* payloads of every shape: the stream of the shunt, short and long, a frame
\* of another operation, the dummy of the simulation and answers of 7 to 25
\* bytes
DecoderPayloads ==
    UnsolicitedFrames \cup {DummyFrame}
        \cup { AnswerFrame("Inverter", s, b, TRUE) : s \in 0..3, b \in Bodies }

\* a new ShuntDevice or TestDevice, and no poll
InitDecode ==
    /\ devtype \in {"SmartShunt300", "TestDevice"}
    /\ body \in Bodies
    /\ api = [pc |-> "ready", lastUpdateValid |-> FALSE, error |-> None, polls |-> 0,
              prev |-> "none"]
    /\ fed = << >>
    /\ Alone
    /\ pc = "none"
    /\ Constructed

\* parse_section(frame, 0) is called on the decoder
Feed(frame) ==
    /\ Len(fed) < MaxFeed
    /\ \E items \in {ParseSection(devtype, frame, 0, dec)} :
          /\ dec' = items.st
          /\ fed' = Append(fed, [frame |-> frame, valid |-> items.valid,
                                 raised |-> items.raised,
                                 entities |-> Len(items.entities),
                                 list |-> items.entities])
    /\ UNCHANGED << devtype, body, api, aside, pc, client, locals, event, ret_dev_data, error,
                    result, device, writes, calls, cycles, cbhist, retried, spent, faults >>

NextDecode == \E frame \in DecoderPayloads : Feed(frame)

SpecDecode == InitDecode /\ [][NextDecode]_vars

\* ------------------------------------------------- API.get_devices, poll
\* after poll
MaxPolls == 2         \* calls of get_devices on one API object

\* a device type tag that no branch of get_devices knows
UnknownTypes == {"Foo"}

\* API.__init__: lastUpdateValid = False, and no session yet
InitPolls ==
    /\ devtype \in DeviceTypes \cup UnknownTypes
    /\ body \in Bodies
    /\ api = [pc |-> "ready", lastUpdateValid |-> FALSE, error |-> None, polls |-> 0,
              prev |-> "none"]
    /\ fed = << >>
    /\ Alone
    /\ pc = "none"
    /\ Constructed

\* get_devices may be called: the previous call, if any, is over
Callable == api.pc \in {"ready", "returned", "raised"} /\ api.polls < MaxPolls

\* line 56, and where this call of get_devices goes next
Called(outcome, err) ==
    api' = [pc |-> outcome, lastUpdateValid |-> FALSE, error |-> err,
            polls |-> api.polls + 1, prev |-> api.pc]

\* the instance of the previous call is dropped: the transport, the locals
\* of execute and the histories are those of a new instance
NewInstance ==
    /\ client' = None
    /\ countsent' = 0
    /\ recieved' = 0
    /\ countwait' = 0
    /\ event' = FALSE
    /\ error' = None
    /\ result' = NoneValue
    /\ subscribed' = FALSE
    /\ inflight' = {}
    /\ late' = 0
    /\ writes' = [here |-> 0, last |-> NoReq, frame |-> << >>]
    /\ calls' = [connect |-> 0, notify |-> 0, disconnect |-> 0]
    /\ cycles' = {}
    /\ acceptedHere' = 0
    /\ retried' = FALSE
    /\ spent' = spent
    /\ lastcb' = "none"
    /\ trailing' = FALSE
    /\ faults' = {}

\* a faulty variant of lines 71-91 that keeps one session object and runs
\* execute on it again (C15 must tell it apart)
GetDevicesKeepingSession(found) ==
    /\ Callable
    /\ NewInstance
    /\ UNCHANGED << ret_dev_data, section_index >>
    /\ dec' = InitialDecoderState
    /\ IF devtype # "TestDevice" /\ ~found
       THEN Called("raised", "ConfigEntryNotReady") /\ pc' = "none"
       ELSE IF devtype \in DeviceTypes
       THEN Called("executing", None) /\ pc' = "idle"
       ELSE Called("raised", "APIConnectionError") /\ pc' = "none"
    /\ UNCHANGED << devtype, body, fed, aside >>

\* a faulty variant of lines 71-91 that keeps the decoder of the previous
\* call (C16 must tell it apart)
GetDevicesKeepingDecoder(found) ==
    /\ Callable
    /\ NewInstance
    /\ ret_dev_data' = << >>
    /\ section_index' = 0
    /\ dec' = dec
    /\ IF devtype # "TestDevice" /\ ~found
       THEN Called("raised", "ConfigEntryNotReady") /\ pc' = "none"
       ELSE IF devtype \in DeviceTypes
       THEN Called("executing", None) /\ pc' = "idle"
       ELSE Called("raised", "APIConnectionError") /\ pc' = "none"
    /\ UNCHANGED << devtype, body, fed, aside >>

\* a faulty variant of lines 72-91 with a final else branch that runs a
\* session for a tag it does not know (C19 must tell it apart)
GetDevicesDefaulting(found) ==
    /\ Callable
    /\ NewInstance
    /\ ret_dev_data' = << >>
    /\ section_index' = 0
    /\ dec' = InitialDecoderState
    /\ IF devtype # "TestDevice" /\ ~found
       THEN Called("raised", "ConfigEntryNotReady") /\ pc' = "none"
       ELSE Called("executing", None) /\ pc' = "idle"
    /\ UNCHANGED << devtype, body, fed, aside >>

\* lines 54-91: get_devices up to the call of execute, or to the exception.
\* found: async_ble_device_from_address knows the address.  Each branch
\* of lines 72-91 constructs a new session object
GetDevices(found) ==
    /\ Callable
    /\ NewInstance
    /\ ret_dev_data' = << >>
    /\ section_index' = 0
    /\ dec' = InitialDecoderState
    /\ IF devtype # "TestDevice" /\ ~found
       THEN Called("raised", "ConfigEntryNotReady") /\ pc' = "none"
       ELSE IF devtype \in DeviceTypes
       THEN Called("executing", None) /\ pc' = "idle"
       ELSE Called("raised", "APIConnectionError") /\ pc' = "none"
    /\ UNCHANGED << devtype, body, fed, aside >>

\* a faulty variant of lines 93-102 that returns whatever execute returned
\* (C20 must tell it apart)
GetDevicesReturnsAnything ==
    /\ api.pc = "executing"
    /\ pc = "done"
    /\ api' = [api EXCEPT !.pc = "returned", !.lastUpdateValid = TRUE]
    /\ seen' = seen \cup Published(result)
    /\ UNCHANGED << devtype, body, fed, req, peer, switches, pc, client, session, error, result, device,
                    writes, calls, cycles, cbhist, retried, spent, faults >>

\* lines 93-102: execute returned its list
GetDevicesReturns ==
    /\ api.pc = "executing"
    /\ pc = "done"
    /\ api' = IF Len(result) = 0
              THEN [api EXCEPT !.pc = "raised", !.error = "APIConnectionError"]
              ELSE [api EXCEPT !.pc = "returned", !.lastUpdateValid = TRUE]
    /\ seen' = seen \cup Published(result)
    /\ UNCHANGED << devtype, body, fed, req, peer, switches, pc, client, session, error, result, device,
                    writes, calls, cycles, cbhist, retried, spent, faults >>

\* an exception left execute: it leaves get_devices too
GetDevicesPropagates ==
    /\ api.pc = "executing"
    /\ pc = "raised"
    /\ api' = [api EXCEPT !.pc = "raised", !.error = "Propagated"]
    /\ UNCHANGED << devtype, body, fed, aside, pc, client, session, error, result, device,
                    writes, calls, cycles, cbhist, retried, spent, faults >>

\* the polls of one API object, one after the other; every request is
\* answered within its cycle or never
NextPolls ==
    \/ \E found \in BOOLEAN : GetDevices(found)
    \/ GetDevicesReturns
    \/ GetDevicesPropagates
    \/ Execute
    \/ \E is_connected \in BOOLEAN : EstablishConnection(is_connected)
    \/ EstablishConnectionRaises
    \/ StartNotify
    \/ StartNotifyRaises
    \/ ReadSection
    \/ WriteGattChar
    \/ WriteGattCharRaises
    \/ WaitWithoutWrite
    \/ Sleep
    \/ AttemptEnd(FALSE)
    \/ Advance
    \/ RaiseCommunicationError
    \/ Disconnect
    \/ DisconnectReturns
    \/ DisconnectRaises
    \/ Finalize
    \/ ExceptHandler
    \/ HandlerDisconnectReturns
    \/ HandlerDisconnectRaises
    \/ Cancel
    \/ \E r \in inflight, crcOk \in BOOLEAN : DeviceAnswers(r, crcOk)
    \/ \E frame \in UnsolicitedFrames : DeviceSends(frame)

SpecPolls == InitPolls /\ [][NextPolls]_vars

\* ------------------------------------------------------------- properties
\* the session talks to a real device through a write characteristic
HasWrite == WRITE_SERVICE_UUID(devtype) \notin {None, TEST}

\* execute has returned, or an exception has left it
Stopped == pc \in {"done", "raised"}

\* a step taken while execute is suspended and that is none of its own: the
\* steps of the notification callback are among these
CallbackStep == Delivering /\ pc' = pc

\* the frame bears the operation code the session waits for
ExpectedOperation(frame) == ByteAt(frame, 1) = READ_OPERATION(devtype)

\* the decoder of the session finds the frame invalid for the current index
DecodedInvalid(frame) ==
    \E items \in {ParseSection(devtype, frame, section_index, dec)} :
        ~items.raised /\ ~items.valid

\* C1: in a session with a write characteristic whose transport calls succeed
\* and which is not cancelled, when no notification was accepted as valid for
\* section 0, execute has written the request of section 0 exactly twice and
\* no request of a later section, has raised the communication error, and
\* returns no measurement.
C1_NoAnswerForFirstSection ==
    (pc = "done" /\ HasWrite /\ faults = {} /\ section_index = 0 /\ acceptedHere = 0)
        => /\ writes.here = 2
           /\ writes.last = 0
           /\ error = "DeviceCommunicationError"
           /\ result = << >>

C1_Witness ==
    /\ pc = "done" /\ HasWrite /\ faults = {}
    /\ section_index = 0 /\ acceptedHere = 0
    /\ writes = [here |-> 2, last |-> 0, frame |-> Request(devtype, 0)]
    /\ error = "DeviceCommunicationError"

\* C2: when section i >= 1 got no valid response in both attempts after the
\* sections before it succeeded (transport calls succeed, no cancellation),
\* execute returns the empty list although measurements were accumulated, and
\* the last request written is the one of section i.
C2_PartialResultsDiscarded ==
    (/\ pc = "done" /\ faults = {}
     /\ section_index >= 1 /\ error = "DeviceCommunicationError")
        => /\ result = << >>
           /\ writes.last = section_index
           /\ writes.here = 2
           /\ section_index < NumSections(devtype)

C2_Witness ==
    /\ pc = "done" /\ faults = {}
    /\ section_index >= 1 /\ error = "DeviceCommunicationError"
    /\ Len(ret_dev_data) > 0
    /\ result = << >>

\* the steps of the section index: it starts at 0, stays within the section
\* list, and moves by one only when a notification was decoded as valid with
\* the current index
C3_IndexStep ==
    /\ pc = "idle" => section_index = 0
    /\ section_index \in 0..NumSections(devtype)
    /\ section_index' \in 0..NumSections(devtype)
    /\ section_index' # section_index
          => /\ section_index' = section_index + 1
             /\ acceptedHere >= 1

\* the steps that write a request: the request of the current section, which
\* is the section of the previous request or the one after it
C3_WriteStep ==
    (writes'.here = writes.here + 1)
        => /\ writes'.last = section_index
           /\ writes.last = NoReq => section_index = 0
           /\ writes.last # NoReq => writes'.last \in {writes.last, writes.last + 1}

\* the disconnect of the normal path comes when every section is done
C3_DisconnectStep ==
    (pc' = "disconnecting") => section_index = NumSections(devtype)

\* C3 as the specification states it: the section index starts at 0, never
\* decreases, never exceeds the number of sections and moves by exactly one
\* after a valid decode for the current index; requests are written in
\* section order; and a section answered on its first attempt was written
\* exactly one request, in every session.
C3_AsStated ==
    [][ /\ C3_IndexStep
        /\ C3_WriteStep
        /\ C3_DisconnectStep
        /\ (section_index' # section_index /\ countsent = 1) => writes.here = 1
      ]_vars

\* C3 amended: the same, the count of one request for a section answered on
\* its first attempt being stated of the sessions that have a write
\* characteristic (the shunt session writes no request at all).
C3_SequentialSections ==
    [][ /\ C3_IndexStep
        /\ C3_WriteStep
        /\ C3_DisconnectStep
        /\ (section_index' # section_index /\ countsent = 1)
              => writes.here = (IF WRITE_SERVICE_UUID(devtype) = None THEN 0 ELSE 1)
      ]_vars

C3_Witness ==
    /\ pc = "done" /\ HasWrite /\ faults = {}
    /\ error = None /\ ~retried
    /\ section_index = NumSections(devtype)
    /\ writes.last = NumSections(devtype) - 1
    /\ calls.disconnect = 1
    /\ Len(result) > 0

\* C4: a notification callback on a frame of the expected operation that the
\* decoder finds invalid for the current index accumulates nothing, leaves
\* the response signal as it was, and leaves the section index, the attempt
\* counter, the polling counter, the requests written and the place of
\* execute unchanged.
C4_Discarded ==
    /\ lastcb' = "invalid"
    /\ UNCHANGED << ret_dev_data, event, section_index, countsent, recieved,
                    countwait, writes, pc >>

C4_InvalidDiscarded ==
    [][ CallbackStep =>
          /\ \A r \in inflight \ inflight', crcOk \in BOOLEAN :
                (/\ ExpectedOperation(AnswerFrame(devtype, r[1], body, crcOk))
                 /\ DecodedInvalid(AnswerFrame(devtype, r[1], body, crcOk))
                 /\ DeviceAnswers(r, crcOk)) => C4_Discarded
          /\ \A frame \in UnsolicitedFrames :
                (/\ ExpectedOperation(frame)
                 /\ DeviceSends(frame)
                 /\ DecodedInvalid(frame)) => C4_Discarded
      ]_vars

C4_Witness ==
    /\ lastcb = "invalid"
    /\ pc = "sleeping" /\ countwait >= 1
    /\ ~event
    /\ ret_dev_data = << >>

\* C5: the expected operation is 3 for the inverter and the DC-DC charger and
\* 87 for the shunt, and a notification callback on a frame of another
\* operation does not call the decoder and leaves the measurement list, the
\* response signal, the section index and the decoder state unchanged.
C5_Ignored ==
    /\ lastcb' = "ignored"
    /\ UNCHANGED << ret_dev_data, event, section_index, dec >>

C5_OtherOperationIgnored ==
    [][ /\ READ_OPERATION("Inverter") = 3
        /\ READ_OPERATION("DcDcCharger") = 3
        /\ READ_OPERATION("SmartShunt300") = 87
        /\ CallbackStep =>
              /\ \A r \in inflight \ inflight', crcOk \in BOOLEAN :
                    (/\ ~ExpectedOperation(AnswerFrame(devtype, r[1], body, crcOk))
                     /\ DeviceAnswers(r, crcOk)) => C5_Ignored
              /\ \A frame \in UnsolicitedFrames :
                    (~ExpectedOperation(frame) /\ DeviceSends(frame)) => C5_Ignored
      ]_vars

C5_Witness ==
    /\ lastcb = "ignored"
    /\ pc = "sleeping"
    /\ ~event

\* C6: a notification callback on a frame of the expected operation whose
\* checksum does not match its content adds no measurement and does not set
\* the response signal.
C6_BadChecksumRejected ==
    [][ CallbackStep =>
          /\ \A r \in inflight \ inflight' :
                (/\ ExpectedOperation(AnswerFrame(devtype, r[1], body, FALSE))
                 /\ DeviceAnswers(r, FALSE))
                    => UNCHANGED << ret_dev_data, event >>
          /\ \A frame \in UnsolicitedFrames :
                (ExpectedOperation(frame) /\ ~frame.crcOk /\ DeviceSends(frame))
                    => UNCHANGED << ret_dev_data, event >>
      ]_vars

\* C7: at most one request/response cycle is in progress, it is a cycle of the
\* current section, and a cycle ends only with the response signal set or
\* with the polling counter at its limit.
C7_OneCycleAtATime ==
    /\ Cardinality(cycles) <= 1
    /\ \A c \in cycles : c[1] = section_index
    /\ pc = "writing" => cycles = {<<section_index, writes.here>>}
    /\ pc = "attempt_end" => (event \/ countwait = MaxWait)

C7_Witness ==
    /\ cycles = {<<1, 2>>}
    /\ pc = "sleeping"
    /\ inflight # {}

\* C8: when execute has stopped with a connection established, a disconnect
\* was attempted.
C8_DisconnectOnEveryExit ==
    (Stopped /\ client # None) => calls.disconnect >= 1

\* C9: when a transport call has failed (no cancellation), execute returns the
\* empty list, after a disconnect when a connection was established.
C9_FailSoft ==
    (Stopped /\ faults # {} /\ "cancel" \notin faults)
        => /\ pc = "done"
           /\ result = << >>
           /\ client # None => calls.disconnect >= 1

\* what follows a failed connection: one connection attempt, no subscription,
\* no request written, nothing accumulated
C10_NothingAfterFailure ==
    /\ calls.connect = 1
    /\ calls.notify = 0
    /\ ~subscribed
    /\ writes.last = NoReq
    /\ ret_dev_data = << >>
    /\ pc = "done" => result = << >>

\* C10 as the specification states it: when the link cannot be established or
\* the client reports not connected, the error of the session is
\* DeviceConnectionError, and there is no second connection attempt, no
\* subscription and no request.
C10_AsStated ==
    (faults \cap {"connect", "not_connected"} # {})
        => /\ error = "DeviceConnectionError"
           /\ C10_NothingAfterFailure

\* C10 amended: when the client reports not connected the error of the
\* session is DeviceConnectionError, and when the link cannot be established
\* it is the error of the connection attempt; in both cases there is no
\* second connection attempt, no subscription and no request.
C10_ConnectionFailure ==
    (faults \cap {"connect", "not_connected"} # {})
        => /\ "not_connected" \in faults => error = "DeviceConnectionError"
           /\ "connect" \in faults => error = "BleakError"
           /\ C10_NothingAfterFailure

C10_Witness ==
    /\ pc = "done"
    /\ "not_connected" \in faults
    /\ error = "DeviceConnectionError"
    /\ calls = [connect |-> 1, notify |-> 0, disconnect |-> 1]

\* C11: the list returned by a successful poll contains exactly one
\* measurement marked primary.
C11_OnePrimary ==
    (pc = "done" /\ error = None /\ result # << >>)
        => Cardinality({i \in 1..Len(result) : result[i].is_main}) = 1

\* the time the current attempt has spent in asyncio.sleep, in milliseconds
Elapsed == countwait * SLEEP_MS

\* the step in which asyncio.sleep(.2) returns
SleepReturns == pc = "sleeping" /\ countwait' # countwait

\* the step in which the current section is declared failed
DeclaredFailed == pc = "loop" /\ error = None /\ error' = "DeviceCommunicationError"

\* C13 (state part): the wait of an attempt never exceeds 25 intervals of
\* 0.2 s (5 s), there are never more than 2 attempts, and an attempt that
\* ends with no notification accepted has waited exactly 25 intervals.
C13_WaitBounds ==
    /\ countwait \in 0..25
    /\ Elapsed <= 5000
    /\ countsent \in 0..2
    /\ (pc = "attempt_end" /\ ~event) => (countwait = 25 /\ Elapsed = 5000)

\* C13: an attempt waits in 0.2 s intervals, at most 25 of them (5 s): an
\* unanswered attempt ends after exactly 25 intervals, an attempt in which a
\* notification is accepted ends at the first return of the sleep after it,
\* and a section is declared failed after exactly 2 unanswered attempts.
C13_AttemptTiming ==
    [][/\ C13_WaitBounds
       /\ (SleepReturns /\ event) => pc' = "attempt_end"
       /\ (SleepReturns /\ ~event)
             => /\ countwait' = countwait + 1
                /\ pc' = IF countwait' = 25 THEN "attempt_end" ELSE "sleeping"
       /\ DeclaredFailed => (countsent = 2 /\ recieved = 0 /\ ~event)
       /\ (pc = "attempt_end" /\ pc' = "loop" /\ ~event /\ countsent = 1)
             => (countsent' = 2 /\ recieved' = recieved)]_vars

C13_Witness ==
    /\ error = "DeviceCommunicationError"
    /\ countsent = 2
    /\ countwait = 25
    /\ section_index > 0
    /\ retried

\* the attribute keys of the session identity
IdentityKeys == {"mac", "device_name", "config_name"}

\* the attributes of a finalized primary measurement whose decoder emitted attrs
Finalized(attrs) ==
    {p \in attrs : p[1] \notin IdentityKeys}
        \cup {<<"mac", Str("AA:BB:CC:DD:EE:FF")>>,
              <<"device_name", [text |-> "BT-TH-1A2B3C4D", padded |-> FALSE]>>,
              <<"config_name", Str("Camper")>>}

\* no measurement of the list carries an attribute of the session identity
Untagged(list) ==
    \A i \in 1..Len(list) : \A p \in list[i].attributes : p[1] \notin IdentityKeys

Simulated == devtype = "TestDevice"

\* no call has reached the transport
NoTransport ==
    /\ calls = [connect |-> 0, notify |-> 0, disconnect |-> 0]
    /\ writes = [here |-> 0, last |-> NoReq, frame |-> << >>]
    /\ client = None
    /\ ~subscribed
    /\ inflight = {}

\* C18: in simulation mode there is no connect, subscribe, write or
\* disconnect; execute calls the decoder exactly once, with the fixed dummy
\* payload and index 0, and returns its measurements after finalization.
C18_Simulation ==
    [][Simulated =>
         /\ WRITE_SERVICE_UUID(devtype) = TEST
         /\ NoTransport /\ NoTransport'
         /\ (dec' # dec \/ acceptedHere' # acceptedHere \/ lastcb' # lastcb)
               => /\ pc = "idle" /\ pc' = "finalize"
                  /\ section_index = 0
                  /\ lastcb = "none" /\ lastcb' = "valid"
                  /\ acceptedHere = 0 /\ acceptedHere' = 1
                  /\ ret_dev_data = << >>
                  /\ ret_dev_data' =
                        TestParseSection(DummyFrame, 0, InitialDecoderState).entities
         /\ pc' = "done"
               => /\ pc = "finalize"
                  /\ error' = None
                  /\ acceptedHere' = 1
                  /\ Len(result') = 7
                  /\ result' = AddDevices(
                        TestParseSection(DummyFrame, 0, InitialDecoderState).entities)
         /\ pc' \notin {"idle", "finalize", "done"} => pc' = pc]_vars

C18_Witness ==
    /\ Simulated
    /\ pc = "done"
    /\ Len(result) = 7
    /\ acceptedHere = 1
    /\ NoTransport

\* what the registers of section s of the charger hold during this poll
ChargerPayload(s) == AnswerFrame("DcDcCharger", s, body, TRUE)

\* C14: in every successful DC-DC poll the primary measurement "Combined
\* Charge Current" carries the model and the battery type parsed from
\* sections 0 and 3 of the same poll, never "Unknown", and "Battery Percent"
\* is the unscaled 2-byte value at offset 3 of the charging-info payload.
C14_ModelAndBatteryType ==
    (devtype = "DcDcCharger" /\ pc = "done" /\ error = None /\ result # << >>)
        => \A i \in 1..Len(result) :
              /\ result[i].name = "Combined Charge Current"
                    => /\ result[i].is_main
                       /\ <<"model", Text(ChargerPayload(0))>> \in result[i].attributes
                       /\ <<"battery_type",
                             BatteryTypeGet(BigEndian(ChargerPayload(3), 3, 2))>>
                                \in result[i].attributes
                       /\ <<"model", Unknown>> \notin result[i].attributes
                       /\ <<"battery_type", Unknown>> \notin result[i].attributes
              /\ result[i].name = "Battery Percent"
                    => result[i].state = Num(BigEndian(ChargerPayload(4), 3, 2), 1)

\* C12 as the specification states it: of any two payloads fed in sequence
\* at section index 0 to a new shunt or test decoder, the first is valid and
\* the second is not, whatever they contain.
C12_AsStated ==
    Len(fed) >= 2 => (fed[1].valid /\ ~fed[2].valid)

\* C12 amended: of any two payloads fed in sequence at section index 0 to a
\* new decoder, the first is valid and the second is not, for the test
\* decoder whatever they contain and for the shunt decoder when the first
\* has at least 110 bytes; a shunt payload shorter than that is not valid
\* and leaves the latch open for the next one.
C12_FirstValidOnly ==
    /\ (Len(fed) >= 2 /\ (devtype = "SmartShunt300" => fed[1].frame.len >= 110))
          => /\ fed[1].valid /\ fed[1].entities > 0 /\ ~fed[1].raised
             /\ ~fed[2].valid /\ fed[2].entities = 0 /\ ~fed[2].raised
    /\ (Len(fed) >= 1 /\ devtype = "SmartShunt300" /\ fed[1].frame.len < 110)
          => /\ ~fed[1].valid
             /\ Len(fed) >= 2 => (fed[2].valid <=> fed[2].frame.len >= 110)

C12_Witness ==
    /\ Len(fed) = 2
    /\ devtype = "SmartShunt300"
    /\ fed[1].frame.len >= 110 /\ fed[1].valid
    /\ fed[2].frame.len >= 110 /\ ~fed[2].valid

\* the step in which a call of get_devices starts a new poll
PollStarts == api.polls' # api.polls

\* list is list2 with measurements appended
Extends(list, list2) ==
    /\ Len(list) > Len(list2)
    /\ SubSeq(list, 1, Len(list2)) = list2

\* C15: the measurement list is built anew on every poll: each poll starts
\* with an empty list and section index 0 whatever the earlier polls left,
\* the list changes only by what this poll decodes and by finalization, and
\* the list a poll returns is the list of its own session.
C15_FreshEveryPoll ==
    [][/\ PollStarts
            => (ret_dev_data' = << >> /\ section_index' = 0 /\ result' = NoneValue)
       /\ (~PollStarts /\ ret_dev_data' # ret_dev_data)
            => /\ api' = api /\ api.pc = "executing"
               /\ \/ pc = "finalize" /\ Len(ret_dev_data') = Len(ret_dev_data)
                  \/ (CallbackStep \/ pc = "idle") /\ Extends(ret_dev_data', ret_dev_data)
       /\ (~PollStarts /\ section_index' # section_index)
            => (api' = api /\ section_index' = section_index + 1)
       /\ (api.pc = "executing" /\ api'.pc = "returned")
            => (pc = "done" /\ result = ret_dev_data /\ result' = result)]_vars

C15_Witness ==
    /\ api.polls = 2
    /\ api.pc = "returned"
    /\ api.prev = "returned"
    /\ devtype = "Inverter"
    /\ Len(result) = Len(InverterDeviceIdFields) + Len(InverterStatsFields)
                        + Len(InverterLoadFields)

\* a frame the shunt decoder takes when its latch is open
Qualifies(frame) == frame.op = SHUNT_OPERATION /\ frame.len >= 110

\* C16: the first-valid-frame latch of the shunt and test decoders is open
\* again at the start of every poll made through get_devices: in each poll
\* the first qualifying frame the session receives is accepted, whatever
\* the earlier polls accepted.
C16_LatchOpenEveryPoll ==
    [][/\ PollStarts => dec'.first_parse
       /\ (devtype = "SmartShunt300" /\ CallbackStep /\ section_index = 0
              /\ acceptedHere = 0)
            => \A frame \in UnsolicitedFrames :
                  (Qualifies(frame) /\ DeviceSends(frame))
                      => (lastcb' = "valid" /\ acceptedHere' = 1 /\ event')
       /\ (devtype = "TestDevice" /\ pc = "idle" /\ pc' # pc)
            => (lastcb' = "valid" /\ acceptedHere' = 1 /\ pc' = "finalize")]_vars

C16_Witness ==
    /\ api.polls = 2
    /\ api.prev = "returned"
    /\ api.pc = "executing"
    /\ devtype = "SmartShunt300"
    /\ lastcb = "valid"
    /\ acceptedHere = 1
    /\ ~dec.first_parse

\* the API was given a device type tag that get_devices does not know
UnknownTag == devtype \notin DeviceTypes

\* no session object exists and nothing has reached the transport
NoSession ==
    /\ pc = "none"
    /\ NoTransport
    /\ ret_dev_data = << >>
    /\ result = NoneValue

C20_ValidIffReturned ==
    /\ api.lastUpdateValid <=> api.pc = "returned"
    /\ api.pc = "returned" => (pc = "done" /\ Len(result) > 0)
    /\ api.pc = "raised" => api.error # None
    /\ (api.pc \in {"returned", "raised"} /\ pc = "done" /\ result = << >>)
          => (api.pc = "raised" /\ api.error = "APIConnectionError")

C20_Witness ==
    /\ api.pc = "raised"
    /\ api.error = "APIConnectionError"
    /\ ~api.lastUpdateValid
    /\ api.prev = "returned"
    /\ pc = "done"
    /\ result = << >>
    /\ devtype = "Inverter"


\* ----------------------------------------------------------- claims C21..C30
\* the request that the device answers in this step
Answered == inflight \ inflight'

\* C26: every batch accumulated under section index i was decoded from a
\* notification answering a request for section i: an answer to a request
\* for another section is never accepted under the current index.
C26_AnswerOfCurrentSection ==
    [][(CallbackStep /\ Answered # {} /\ lastcb' = "valid")
          => \A r \in Answered : r[1] = section_index]_vars

\* no entity index occurs twice in the list
Distinct(list) == \A i, j \in 1..Len(list) : list[i].id = list[j].id => i = j

\* C27: in the list returned by a successful poll the unique ids are pairwise
\* distinct: the output of a section's decoder is appended at most once.
C27_DistinctIds ==
    (pc = "done" /\ error = None /\ result # << >>) => Distinct(result)

\* the session of a real controller: it has a transport
RealDevice == ~Simulated

\* execute returns in this step after a normal completion or after a
\* communication failure, no transport call having failed
Returns ==
    /\ pc # "done" /\ pc' = "done"
    /\ faults' = {}
    /\ error' \in {None, "DeviceCommunicationError"}

\* a request is written in this step
Writes == writes'.here = writes.here + 1

\* C29: on normal completion and on communication failure of a real-device
\* session whose transport calls succeed, disconnect is called exactly once,
\* after the last request write, and no request is written once disconnect
\* was called.
C29_DisconnectOnce ==
    [][ /\ (RealDevice /\ Returns) => calls'.disconnect = 1
        /\ (RealDevice /\ faults' = {} /\ calls'.disconnect # calls.disconnect)
              => calls.disconnect = 0 /\ calls'.disconnect = 1
        /\ (RealDevice /\ Writes) => calls.disconnect = 0
      ]_vars

C29_Witness ==
    /\ pc = "done" /\ HasWrite /\ faults = {}
    /\ error = "DeviceCommunicationError"
    /\ writes.last # NoReq
    /\ calls.disconnect = 1

\* the session of a shunt
Shunt == devtype = "SmartShunt300"

\* what the shunt decoder makes of a frame while its latch is open
ShuntEntities(frame) == ShuntParseSection(frame, 0, InitialDecoderState).entities

\* C30: a shunt session never writes a request frame.  It subscribes and
\* waits up to two timeout windows for unsolicited frames; the first frame
\* with operation 87 and at least 110 bytes is accepted and the session
\* returns exactly the 6 measurements decoded from it, however many frames
\* follow; it fails with the empty list when no such frame arrives.
C30_ShuntListens ==
    [][ Shunt =>
        /\ writes.last = NoReq /\ writes'.last = NoReq /\ calls'.notify <= 1
        /\ countsent <= MaxSend /\ countwait <= MaxWait
        /\ \A frame \in UnsolicitedFrames :
              (CallbackStep /\ DeviceSends(frame))
                 => IF Qualifies(frame) /\ ret_dev_data = << >>
                    THEN /\ ret_dev_data' = ShuntEntities(frame)
                         /\ Len(ret_dev_data') = 6
                         /\ event'
                    ELSE /\ ret_dev_data' = ret_dev_data
                         /\ event' = event
        /\ DeclaredFailed => (ret_dev_data = << >> /\ countsent = MaxSend)
        /\ (pc # "done" /\ pc' = "done")
              => IF error' = None
                 THEN /\ Len(ret_dev_data) = 6
                      /\ result' = AddDevices(ret_dev_data)
                 ELSE result' = << >>
      ]_vars

C30_Witness ==
    /\ Shunt /\ pc = "done" /\ error = None
    /\ Len(result) = 6
    /\ lastcb = "invalid"
    /\ writes.last = NoReq

\* ------------------------------------------------ the request builder alone
\* registers and word counts the builder is called with: the ends of the
\* 16-bit range, values around the byte boundary and those of the section
\* tables
Registers == {0, 1, 12, 255, 256, 4000, 4311, 57348, 65535}
WordCounts == {0, 1, 8, 110, 255, 256, 65535}

\* sessions as in Spec, and calls of the builder with arguments of its own
InitRequest ==
    \/ Init
    \/ /\ devtype = "Inverter"
       /\ body = 1
       /\ api = [pc |-> "ready", lastUpdateValid |-> FALSE, error |-> None,
                 polls |-> 0, prev |-> "none"]
       /\ fed = << >>
       /\ peer = NoPeer
       /\ switches = 0
       /\ seen = {}
       /\ spent = NoCount
       /\ pc = "none"
       /\ Constructed
       /\ req \in [device_id : {1, DEVICE_ID}, function : {FUNCTION_READ, OTHER_OPERATION},
                   regAddr : Registers \cup {NoArg}, readWrd : WordCounts \cup {NoArg},
                   called : {FALSE}, data : {<< >>}]

\* create_generic_read_request is called and returns
BuildRequest ==
    /\ pc = "none"
    /\ req # << >> /\ ~req.called
    /\ req' = [req EXCEPT !.called = TRUE,
                          !.data = CreateGenericReadRequest(req.device_id, req.function,
                                                            req.regAddr, req.readWrd)]
    /\ UNCHANGED << devtype, body, api, fed, peer, switches, seen, pc, client, session,
                    error, result, device, writes, calls, cycles, cbhist, retried, spent,
                    faults >>

NextRequest == Next \/ BuildRequest

SpecRequest == InitRequest /\ [][NextRequest]_vars

\* the layout of a read request: 8 bytes, the arguments high byte first, and
\* the CRC-16/Modbus of the first 6 bytes, low byte first
ReadRequest(frame, device_id, function, regAddr, readWrd) ==
    /\ Len(frame) = 8
    /\ \A i \in 1..8 : frame[i] \in 0..255
    /\ frame[1] = device_id
    /\ frame[2] = function
    /\ frame[3] * 256 + frame[4] = regAddr
    /\ frame[5] * 256 + frame[6] = readWrd
    /\ << frame[7], frame[8] >> = Crc16Modbus(SubSeq(frame, 1, 6))

\* C23: for every register and word count in 0..65535 the request builder
\* returns the 8-byte frame [device_id, function, register high, register
\* low, words high, words low, crc low, crc high] whose checksum is the
\* CRC-16/Modbus of the first 6 bytes; every frame a session writes uses
\* function 3, device_id 255 and the register and word count of the section
\* the session is at.
C23_ReadRequest ==
    /\ (req # << >> /\ req.called)
          => IF req.regAddr # NoArg /\ req.readWrd # NoArg
             THEN /\ ReadRequest(req.data, req.device_id, req.function, req.regAddr,
                                 req.readWrd)
                  /\ Crc16Modbus(req.data) = << 0, 0 >>
             ELSE req.data = << >>
    /\ (pc = "writing")
          => /\ writes.last = section_index
             /\ ReadRequest(writes.frame, 255, 3,
                            Sections(devtype)[section_index + 1].register,
                            Sections(devtype)[section_index + 1].words)

\* the request for register 256 and 110 words: ff 03 01 00 00 6e d0 04
C23_Witness ==
    /\ req # << >> /\ req.called
    /\ req.regAddr = 256 /\ req.readWrd = 110
    /\ req.data = << 255, 3, 1, 0, 0, 110, 208, 4 >>

\* the request of the current section is written once more
Resends == Writes /\ writes.here >= 1

\* a notification is decoded as valid and accumulated in this step
Accepts == acceptedHere' = acceptedHere + 1

\* the second attempt for the current section ends
SecondAttemptEnds == pc = "attempt_end" /\ countsent = 1 /\ pc' = "loop"

\* C28: when the first attempt for section i times out and a valid
\* notification is accepted during the second attempt, section i succeeds and
\* the session advances.  The frame sent again is byte for byte the frame
\* sent first, the section index does not change between the two, and the
\* attempt counter is reset on success, so that every section has its own two
\* attempts.
C28_RetryThenSuccess ==
    [][ /\ Resends
           => /\ writes'.frame = writes.frame
              /\ writes'.last = writes.last
              /\ writes.last = section_index
              /\ section_index' = section_index
              /\ writes.here = countsent
        /\ Accepts => event'
        /\ SecondAttemptEnds => (event <=> recieved' = 1)
        /\ (pc = "loop" /\ recieved = 1) => section_index < NumSections(devtype)
        /\ (pc = "loop" /\ recieved = 1 /\ vars' # vars)
              => /\ section_index' = section_index + 1
                 /\ countsent' = 0 /\ recieved' = 0
                 /\ pc' = "loop" /\ error' = None
        /\ (Writes /\ writes.here = 0) => countsent = 0
        /\ DeclaredFailed
              => /\ countsent = MaxSend
                 /\ HasWrite => writes.here = MaxSend
      ]_vars

C28_Witness ==
    /\ pc = "loop" /\ HasWrite /\ faults = {}
    /\ retried /\ lastcb = "valid"
    /\ section_index = 1 /\ countsent = 0 /\ recieved = 0
    /\ writes = [here |-> 0, last |-> 0, frame |-> Request(devtype, 0)]

\* ------------------------------------- the state decoder of the DC-DC charger
\* the codes of the charging state
StateCodes == 0..8

\* answers to the request for the state section whose byte at offset 2, the
\* byte parse_state reads, is the given code
StateFrames ==
    { Frame(FUNCTION_READ, 5 + code, b, crcOk, 2) :
        code \in StateCodes, b \in Bodies, crcOk \in BOOLEAN }

\* a new DCChargerDevice, and no poll
InitState ==
    /\ devtype = "DcDcCharger"
    /\ body \in Bodies
    /\ api = [pc |-> "ready", lastUpdateValid |-> FALSE, error |-> None, polls |-> 0,
              prev |-> "none"]
    /\ fed = << >>
    /\ Alone
    /\ pc = "none"
    /\ Constructed

\* parse_section(frame, 2) is called on the decoder
FeedState(frame) ==
    /\ Len(fed) < MaxFeed
    /\ \E items \in {ParseSection(devtype, frame, 2, dec)} :
          /\ dec' = items.st
          /\ fed' = Append(fed, [frame |-> frame, valid |-> items.valid,
                                 raised |-> items.raised,
                                 entities |-> items.entities])
    /\ UNCHANGED << devtype, body, api, aside, pc, client, locals, event, ret_dev_data,
                    error, result, device, writes, calls, cycles, cbhist, retried, spent,
                    faults >>

NextState == \E frame \in StateFrames : FeedState(frame)

SpecState == InitState /\ [][NextState]_vars

\* C24: the DC-DC state decoder maps the 1-byte code through a table of 9
\* entries: for every code from 0 to 8 the value of "Charge State" is a
\* defined name (0 is "deactivated", 8 is "alternator direct"), never absent.
C24_StateDefined ==
    \A i \in 1..Len(fed) :
        LET code == ByteAt(fed[i].frame, 2)
            out == fed[i].entities
        IN  code \in StateCodes
               => /\ fed[i].valid
                  /\ Len(out) = 1
                  /\ out[1].name = "Charge State"
                  /\ out[1].state # NoneValue
                  /\ code = 0 => out[1].state = Str("deactivated")
                  /\ code = 8 => out[1].state = Str("alternator direct")

\* the kinds of the measurements of a list
Kinds(list) == {list[i].kind : i \in 1..Len(list)}

\* the measurements of the test decoder: index, kind and value
TestMeasurements ==
    << <<1, "PERCENTAGE", Num(852, 10)>>, <<2, "VOLTAGE_SENSOR", Num(136, 10)>>,
       <<3, "VOLTAGE_SENSOR", Num(126, 10)>>, <<4, "CURRENT_SENSOR", Num(315, 100)>>,
       <<5, "POWER_SENSOR", Product(Num(136, 10), Num(315, 100))>>,
       <<6, "TEMPERATURE_SENSOR", Num(121, 10)>>,
       <<7, "VOLTAGE_SENSOR", Num(1245, 100)>> >>

\* the first decode of a test decoder emits the 7 fixed measurements whatever
\* the payload, every later decode emits nothing
FixedOnce ==
    \A i \in 1..Len(fed) :
        IF i = 1
        THEN /\ fed[i].valid /\ ~fed[i].raised
             /\ [k \in 1..Len(fed[i].list) |->
                    << fed[i].list[k].id, fed[i].list[k].kind, fed[i].list[k].state >>]
                   = TestMeasurements
        ELSE ~fed[i].valid /\ ~fed[i].raised /\ fed[i].list = << >>

\* C25 as the specification states it: the first decode of the test decoder
\* at index 0 ignores the input bytes and emits exactly 7 measurements with
\* fixed values whose kinds together cover every kind of the enumeration of
\* measurement kinds; every later decode emits nothing.
C25_AsStated ==
    (devtype = "TestDevice" /\ Len(fed) >= 1)
        => /\ FixedOnce
           /\ Kinds(fed[1].list) = RenogyDeviceType

\* C25 amended: the same, the 7 measurements being of 5 of the 10 kinds:
\* percentage, voltage, current, power and temperature.
C25_FixedMeasurements ==
    (devtype = "TestDevice" /\ Len(fed) >= 1)
        => /\ FixedOnce
           /\ Kinds(fed[1].list) = {"PERCENTAGE", "VOLTAGE_SENSOR", "CURRENT_SENSOR",
                                    "POWER_SENSOR", "TEMPERATURE_SENSOR"}
           /\ Kinds(fed[1].list) \subseteq RenogyDeviceType

C25_Witness ==
    /\ devtype = "TestDevice" /\ Len(fed) = 2
    /\ fed[1].frame.len # fed[2].frame.len
    /\ fed[1].frame.op = SHUNT_OPERATION
    /\ Len(fed[1].list) = 7 /\ Len(fed[2].list) = 0

\* the text "renogy_aa_bb_cc_dd_ee_ff_id_": what the unique_id of every
\* measurement of the controller AA:BB:CC:DD:EE:FF starts with
Prefix ==
    << "r", "e", "n", "o", "g", "y", "_", "a", "a", "_", "b", "b", "_", "c", "c", "_",
       "d", "d", "_", "e", "e", "_", "f", "f", "_", "i", "d", "_" >>

\* C22: the unique_id of a measurement is a function of the controller's
\* address and of a fixed entity index, "renogy_" + the address in lower case
\* with ":" replaced by "_" + "_id_" + the index: any two polls of one
\* controller, whatever the payloads and the retries, give the same logical
\* measurement the same unique_id.
C22_StableUniqueId ==
    (pc = "done" /\ error = None /\ api.pc = "executing")
        => \A i \in 1..Len(result) :
              LET uid == UniqueId(MAC, result[i])
              IN  /\ uid = Prefix \o Digits(result[i].id)
                  /\ \A p \in seen :
                        (p[1] = result[i].name) <=> (p[2] = uid)

C22_Witness ==
    /\ api.polls = 2 /\ api.prev = "returned"
    /\ pc = "done" /\ error = None /\ retried
    /\ \E i \in 1..Len(result) :
          /\ result[i].name = "Charge State"
          /\ UniqueId(MAC, result[i]) = Prefix \o << "2", "5" >>
          /\ << "Charge State", Prefix \o << "2", "5" >> >> \in seen

\* ------------------------------------- two sessions on one event loop
MaxSwitch == 1        \* times the event loop goes from one session to the other

\* attributes that all sessions would hold in common.  RenogyDevice.__init__
\* and the subclasses assign every attribute on self (device.py lines 59-75):
\* there is none
ClassAttributesWithList == {"ret_dev_data"}

ClassAttributes == {}

\* the session the event loop is running: the attributes of the object, the
\* locals of its execute, its transport and its history
Session ==
    [devtype |-> devtype, pc |-> pc, client |-> client,
     section_index |-> section_index, countsent |-> countsent,
     recieved |-> recieved, countwait |-> countwait, event |-> event,
     ret_dev_data |-> ret_dev_data, dec |-> dec, error |-> error,
     result |-> result, subscribed |-> subscribed, inflight |-> inflight,
     late |-> late, writes |-> writes, calls |-> calls, cycles |-> cycles,
     acceptedHere |-> acceptedHere, retried |-> retried, lastcb |-> lastcb,
     trailing |-> trailing, faults |-> faults]

\* a session of class d as its constructor leaves it
Fresh(d) ==
    [devtype |-> d, pc |-> "idle", client |-> None, section_index |-> 0,
     countsent |-> 0, recieved |-> 0, countwait |-> 0, event |-> FALSE,
     ret_dev_data |-> << >>, dec |-> InitialDecoderState, error |-> None,
     result |-> NoneValue, subscribed |-> FALSE, inflight |-> {}, late |-> 0,
     writes |-> [here |-> 0, last |-> NoReq, frame |-> << >>],
     calls |-> [connect |-> 0, notify |-> 0, disconnect |-> 0], cycles |-> {},
     acceptedHere |-> 0, retried |-> FALSE, lastcb |-> "none",
     trailing |-> FALSE, faults |-> {}]

\* the classes of the two sessions: one that caches the model and the battery
\* type, one that has a latch
TwoTypes == {"DcDcCharger", "SmartShunt300"}

\* two API objects have each constructed the session of their controller
InitTwo ==
    /\ devtype \in TwoTypes
    /\ body \in Bodies
    /\ api = Executing(1, "ready")
    /\ fed = << >>
    /\ req = << >>
    /\ seen = {}
    /\ switches = 0
    /\ peer \in {Fresh(d) : d \in TwoTypes \ {devtype}}
    /\ spent = NoCount
    /\ pc = "idle"
    /\ Constructed

\* where execute can be when the event loop starts the other session:
\* suspended in a write or in the disconnect that ends the poll, or over
SwitchPcs == {"writing", "disconnecting", "done"}

\* what the running session finds in an attribute after the switch: its own
\* value, or the one value there is if the attribute is held in common
Own(name, current, own) == IF name \in ClassAttributes THEN current ELSE own

\* the event loop leaves the running session where it is suspended and goes
\* on with the other one
Switch ==
    /\ switches < MaxSwitch
    /\ pc \in SwitchPcs
    /\ switches' = switches + 1
    /\ peer' = Session
    /\ devtype' = peer.devtype
    /\ pc' = peer.pc
    /\ client' = Own("client", client, peer.client)
    /\ section_index' = Own("section_index", section_index, peer.section_index)
    /\ event' = Own("event", event, peer.event)
    /\ ret_dev_data' = Own("ret_dev_data", ret_dev_data, peer.ret_dev_data)
    /\ dec' = Own("dec", dec, peer.dec)
    /\ countsent' = peer.countsent
    /\ recieved' = peer.recieved
    /\ countwait' = peer.countwait
    /\ error' = peer.error
    /\ result' = peer.result
    /\ subscribed' = peer.subscribed
    /\ inflight' = peer.inflight
    /\ late' = peer.late
    /\ writes' = peer.writes
    /\ calls' = peer.calls
    /\ cycles' = peer.cycles
    /\ acceptedHere' = peer.acceptedHere
    /\ retried' = peer.retried
    /\ lastcb' = peer.lastcb
    /\ trailing' = peer.trailing
    /\ faults' = peer.faults
    /\ UNCHANGED << body, api, fed, req, seen, spent >>

\* the frames a shunt sends without being asked
ShuntStream == {frame \in UnsolicitedFrames : frame.op = SHUNT_OPERATION}

\* the steps of the running session, every request being answered within its
\* cycle or never and the poll not being cancelled, and the switch
NextTwo ==
    \/ Switch
    \/ Execute
    \/ \E is_connected \in BOOLEAN : EstablishConnection(is_connected)
    \/ EstablishConnectionRaises
    \/ StartNotify
    \/ StartNotifyRaises
    \/ ReadSection
    \/ WriteGattChar
    \/ WriteGattCharRaises
    \/ WaitWithoutWrite
    \/ Sleep
    \/ AttemptEnd(FALSE)
    \/ Advance
    \/ RaiseCommunicationError
    \/ Disconnect
    \/ DisconnectReturns
    \/ DisconnectRaises
    \/ Finalize
    \/ ExceptHandler
    \/ HandlerDisconnectReturns
    \/ HandlerDisconnectRaises
    \/ \E r \in inflight, crcOk \in BOOLEAN : DeviceAnswers(r, crcOk)
    \/ \E frame \in ShuntStream : DeviceSends(frame)

SpecTwo == InitTwo /\ [][NextTwo]_vars

\* what the suspended session will find when it is resumed: its section
\* index, its response signal, its latch and its cached model and battery
\* type, its list of measurements, and what its execute returned
PeerState ==
    [section_index |-> Own("section_index", section_index, peer.section_index),
     event |-> Own("event", event, peer.event),
     dec |-> Own("dec", dec, peer.dec),
     ret_dev_data |-> Own("ret_dev_data", ret_dev_data, peer.ret_dev_data),
     result |-> peer.result,
     error |-> peer.error]

\* the payload the device of the running session sends for section s
SoloFrame(d, s) ==
    IF d = "SmartShunt300"
    THEN Frame(SHUNT_OPERATION, SHUNT_MIN_LEN, body, TRUE, NoReq)
    ELSE AnswerFrame(d, s, body, TRUE)

\* the measurements of a poll in which every section from s on is answered
\* once, decoded by a decoder in state st
RECURSIVE SoloPoll(_, _, _)
SoloPoll(d, s, st) ==
    IF s >= NumSections(d)
    THEN << >>
    ELSE LET items == ParseSection(d, SoloFrame(d, s), s, st)
         IN  items.entities \o SoloPoll(d, s + 1, items.st)

\* a step of the running session
RunningStep == switches' = switches

PastLast == ~(section_index < NumSections(devtype))

\* outcomes of a callback that accepted nothing
Rejections == {"invalid", "ignored", "raised"}

\* C31: once the section index has advanced past the last section, every
\* further notification is rejected: the callback appends no measurement and
\* changes neither the section index nor the response signal, the decoder of
\* every family answers valid=false to every payload, and the list is the
\* same at the return as at the final advance.
C31_RejectedPastLast ==
    [][ PastLast =>
          /\ section_index' = section_index
          /\ event' = event
          /\ pc # "finalize" => ret_dev_data' = ret_dev_data
          /\ CallbackStep =>
                /\ lastcb' \in Rejections
                /\ \A d \in DeviceTypes, frame \in UnsolicitedFrames :
                      LET items == ParseSection(d, frame, NumSections(d), dec)
                      IN  ~items.valid /\ ~items.raised /\ items.entities = << >>
      ]_vars

\* a poll of the charger returned its list after a notification that arrived
\* between the final advance and the disconnect had been rejected
C31_Witness ==
    /\ devtype = "DcDcCharger"
    /\ trailing /\ lastcb = "invalid"
    /\ pc = "done" /\ error = None
    /\ section_index = NumSections(devtype)
    /\ Len(result) > 0

\* one poll in which the requests written and the polling waits are counted
InitBudget ==
    /\ devtype \in DeviceTypes
    /\ body \in Bodies
    /\ api = Executing(1, "ready")
    /\ fed = << >>
    /\ req = << >> /\ peer = NoPeer /\ switches = 0 /\ seen = {}
    /\ spent = [on |-> TRUE, writes |-> 0, waits |-> 0]
    /\ pc = "idle"
    /\ Constructed

\* the steps of execute when every transport call returns and the poll is
\* not cancelled
Runs ==
    \/ Execute
    \/ \E is_connected \in BOOLEAN : EstablishConnection(is_connected)
    \/ StartNotify
    \/ ReadSection
    \/ WriteGattChar
    \/ WaitWithoutWrite
    \/ Sleep
    \/ AttemptEnd(FALSE)
    \/ Advance
    \/ RaiseCommunicationError
    \/ Disconnect
    \/ DisconnectReturns
    \/ Finalize
    \/ ExceptHandler
    \/ HandlerDisconnectReturns

\* execute with every transport call returning, each request being answered
\* within its cycle or never and the device sending what it likes in between
NextBudget ==
    \/ Runs
    \/ \E r \in inflight, crcOk \in BOOLEAN : DeviceAnswers(r, crcOk)
    \/ \E frame \in UnsolicitedFrames : DeviceSends(frame)

\* the event loop resumes execute whenever an await of it has returned
SpecBudget == InitBudget /\ [][NextBudget]_vars /\ WF_vars(Runs)

\* C32: provided every transport call returns, execute terminates under
\* every schedule of notifications: it writes at most 2 x (number of
\* sections) requests and makes at most 50 x (number of sections) polling
\* waits, and it returns a list, possibly empty.
C32_Terminates ==
    /\ [](/\ spent.writes <= 2 * NumSections(devtype)
          /\ spent.waits <= 50 * NumSections(devtype))
    /\ <>(pc = "done" /\ result # NoneValue)

\* a poll of the charger that needed both attempts and both full waits for
\* every section and returned its list
C32_Witness ==
    /\ devtype = "DcDcCharger"
    /\ pc = "done" /\ error = None
    /\ spent.writes = 2 * NumSections(devtype)
    /\ spent.waits = 50 * NumSections(devtype)
    /\ Len(result) > 0

\* a session set up by RenogyDevice.__init__ alone: no notify and no write
\* characteristic, no sections
BaseTypes == {"RenogyDevice"}

\* one poll, of a session of one of the four families or of a session that
\* has only the set-up of the base class
InitBase ==
    /\ devtype \in DeviceTypes \cup BaseTypes
    /\ body \in Bodies
    /\ api = Executing(1, "ready")
    /\ fed = << >>
    /\ Alone
    /\ pc = "idle"
    /\ Constructed

SpecBase == InitBase /\ [][Next]_vars

\* C33: a real-device session whose notify characteristic is undefined
\* returns an empty list from execute without attempting a connection,
\* subscribing, writing any request or calling any decoder.
C33_NoNotifyCharacteristic ==
    (WRITE_SERVICE_UUID(devtype) # TEST /\ NOTIFY_SERVICE_UUID(devtype) = None)
        => /\ NoTransport
           /\ lastcb = "none" /\ dec = InitialDecoderState
           /\ ret_dev_data = << >>
           /\ pc \in {"idle", "done"}
           /\ pc = "done" => (result = << >> /\ error = None)

\* execute of a session without a notify characteristic has returned
C33_Witness ==
    /\ devtype \in BaseTypes
    /\ NOTIFY_SERVICE_UUID(devtype) = None
    /\ pc = "done" /\ result = << >>
    /\ calls.connect = 0

====
